---------------------------- MODULE Spec2Model ----------------------------
(***************************************************************************)
(* BitacoraApp: a browser-resident attendance and lesson log.              *)
(*                                                                         *)
(* The model covers the persistent store (js/storage.js), the error log    *)
(* (js/error-handler.js), the validators (js/validators.js), the roster    *)
(* registry (js/student-manager.js), the session aggregate                 *)
(* (js/session-manager.js), the statistics engine (js/statistics.js) and   *)
(* the handlers of js/ui-manager.js that drive them.                       *)
(*                                                                         *)
(* Conventions.  A JavaScript string that the code trims, clamps or tests  *)
(* against a regular expression is a tuple of one-character strings        *)
(* (<<"9","A">>); a string the code only stores and compares is a TLA+     *)
(* string.  null is the record Null, except for a timestamp, where null    *)
(* is 0 and a real timestamp is the clock value (>= 1).  A JavaScript      *)
(* object or Map keyed by strings is a function; the insertion order of    *)
(* its keys is kept only where the code depends on it.                     *)
(***************************************************************************)
EXTENDS Integers, Sequences, FiniteSets, TLC

VARIABLES
    localStorage,       \* window.localStorage restricted to the application prefix: key -> JSON text
    available,          \* does localStorage accept access (what StorageService.isAvailable probes)
    groups,             \* StudentManager.groups
    currentStudents,    \* StudentManager.currentStudents
    currentSession,     \* SessionManager.currentSession
    shared,             \* are the records of currentSession.students the very objects of currentStudents
    isDirty,            \* SessionManager.isDirty
    autoSaveInterval,   \* SessionManager.autoSaveInterval: is a timer handle held
    liveTimers,         \* number of interval timers of setInterval not yet cleared
    data,               \* StatisticsManager.data
    now,                \* the clock read by new Date()
    view,               \* what the last read of the statistics returned to the presentation
    last                \* the last call made and what it returned

vars == <<localStorage, available, groups, currentStudents, currentSession, shared,
          isDirty, autoSaveInterval, liveTimers, data, now, view, last>>

Null == [null |-> TRUE]

-----------------------------------------------------------------------------
(* Bounds of the model                                                     *)

MaxClock == 2          \* the clock takes the values 1..MaxClock
MaxLogged == 1         \* an operation that logs an error is taken only while fewer errors are logged
MaxSessions == 2       \* statistics are updated only while every totalSesiones is below this
MaxComments == 1       \* a comment is added only to a student with fewer comments than this
MaxErrors == 102       \* the errors of the log's own run are numbered 1..MaxErrors

-----------------------------------------------------------------------------
(* Characters and strings                                                  *)

UpperCase == {"A","B","C","D","E","F","G","H","I","J","K","L","M",
              "N","O","P","Q","R","S","T","U","V","W","X","Y","Z"}
LowerCase == {"a","b","c","d","e","f","g","h","i","j","k","l","m",
              "n","o","p","q","r","s","t","u","v","w","x","y","z"}
Digit == {"0","1","2","3","4","5","6","7","8","9"}
Accented == {"á","é","í","ó","ú","Á","É","Í","Ó","Ú","ñ","Ñ"}
WhiteSpace == {" "}

\* A value that is not a JavaScript string (a number in an imported file).
NotAString == <<"#number">>

IsString(x) == \A i \in 1..Len(x) : Len(x[i]) = 1

Min(a, b) == IF a < b THEN a ELSE b

RECURSIVE TrimStart(_)
TrimStart(s) == IF s # <<>> /\ Head(s) \in WhiteSpace THEN TrimStart(Tail(s)) ELSE s

RECURSIVE TrimEnd(_)
TrimEnd(s) == IF s # <<>> /\ s[Len(s)] \in WhiteSpace
              THEN TrimEnd(SubSeq(s, 1, Len(s) - 1)) ELSE s

\* String.prototype.trim
Trim(s) == TrimEnd(TrimStart(s))

\* String.prototype.substring(0, n)
Substring0(s, n) == SubSeq(s, 1, Min(Len(s), n))

\* the string whose characters are the members of s
RECURSIVE Concat(_)
Concat(s) == IF s = <<>> THEN "" ELSE Head(s) \o Concat(Tail(s))

-----------------------------------------------------------------------------
(* js/config.js                                                            *)

MAX_TEXT_LENGTH == 1000
MAX_COMMENT_LENGTH == 500
MAX_STUDENT_NAME_LENGTH == 100
MAX_GROUP_LENGTH == 10
MAX_STORAGE_SIZE == 5 * 1024 * 1024
STORAGE_PREFIX == "bitacora_v2_"
STUDENT_STATES == {"presente", "ausente", "tarde"}
PRESENTE == "presente"
COMMENT_TYPES == {"general", "ausente", "tarde", "salidaBano", "enfermeria", "otro"}
GENERAL == "general"
AGREEMENT == {"De Acuerdo", "Parcialmente de acuerdo", "Parcialmente en desacuerdo", "En desacuerdo"}
QUALITY == {"Excelente", "Bueno", "Regular", "Deficiente"}
TIME == {"Suficiente", "Adecuado", "Moderado", "Insuficiente"}
MAX_EVALUATION_LENGTH == 50
maxLogs == 100

-----------------------------------------------------------------------------
(* js/security.js                                                          *)

\* SecurityUtils.sanitizeInput: '' for a non-string or empty input, else trim and clamp.
sanitizeInput(input, maxLength) ==
    IF input = <<>> \/ ~IsString(input) THEN <<>>
    ELSE Substring0(Trim(input), maxLength)

-----------------------------------------------------------------------------
(* js/validators.js                                                        *)

NameChars == UpperCase \cup LowerCase \cup (Accented \cup {"ü","Ü"}) \cup WhiteSpace

validateStudentName(name) ==
    IF name = <<>> \/ ~IsString(name) THEN [valid |-> FALSE, value |-> <<>>]
    ELSE LET check(sanitized) ==
                 IF Len(sanitized) < 2 THEN [valid |-> FALSE, value |-> <<>>]
                 ELSE IF ~(\A i \in 1..Len(sanitized) : sanitized[i] \in NameChars)
                      THEN [valid |-> FALSE, value |-> <<>>]
                      ELSE [valid |-> TRUE, value |-> sanitized]
         IN  check(sanitizeInput(name, MAX_STUDENT_NAME_LENGTH))

\* /^[0-9]+[A-Z]$/
validateGroup(group) ==
    IF group = <<>> \/ ~IsString(group) THEN [valid |-> FALSE, value |-> <<>>]
    ELSE LET check(sanitized) ==
                 IF /\ Len(sanitized) >= 2
                    /\ \A i \in 1..(Len(sanitized) - 1) : sanitized[i] \in Digit
                    /\ sanitized[Len(sanitized)] \in UpperCase
                 THEN [valid |-> TRUE, value |-> sanitized]
                 ELSE [valid |-> FALSE, value |-> <<>>]
         IN  check(sanitizeInput(group, MAX_GROUP_LENGTH))

\* The calendar.  The clock of a run stays within one day, Today; a date string is
\* known by the day it parses to, counted from 2024-03-01, or by NaN.
NaN == -100000
Today == 1
DaysInYear == 366
DayOf(date) ==
    CASE date = "2024-03-01" -> 0
      [] date = "2024-03-02" -> 1
      [] date = "2024-03-09" -> 8
      [] date = "2023-02-27" -> 0 - 368
      [] OTHER -> NaN

validateDate(date) ==
    IF date = "" THEN [valid |-> FALSE, value |-> ""]
    ELSE IF DayOf(date) = NaN THEN [valid |-> FALSE, value |-> ""]
    ELSE IF DayOf(date) > Today THEN [valid |-> FALSE, value |-> ""]
    ELSE IF DayOf(date) < Today - DaysInYear THEN [valid |-> FALSE, value |-> ""]
    ELSE [valid |-> TRUE, value |-> date]

\* /^([01]?[0-9]|2[0-3]):[0-5][0-9]$/ on the times the model enters
WellFormedTimes == {"08:00", "8:05", "23:59"}
validateTime(time) ==
    IF time = "" THEN [valid |-> FALSE, value |-> ""]
    ELSE IF time \notin WellFormedTimes THEN [valid |-> FALSE, value |-> ""]
    ELSE [valid |-> TRUE, value |-> time]

CommentChars == UpperCase \cup LowerCase \cup (Accented \cup Digit)

validateComment(comment) ==
    IF comment = <<>> \/ ~IsString(comment) THEN [valid |-> FALSE, value |-> <<>>]
    ELSE LET sanitized == sanitizeInput(comment, MAX_COMMENT_LENGTH)
         IN  IF Len(sanitized) < 3 THEN [valid |-> FALSE, value |-> <<>>]
             ELSE IF ~(\E i \in 1..Len(sanitized) : sanitized[i] \in CommentChars)
                  THEN [valid |-> FALSE, value |-> <<>>]
                  ELSE [valid |-> TRUE, value |-> sanitized]

-----------------------------------------------------------------------------
(* Sums                                                                    *)

\* the sum of the values of a function with a finite domain, value by value: each value
\* times the number of arguments that have it
SumFun(f) ==
    LET sum[V \in SUBSET {f[x] : x \in DOMAIN f}] ==
            IF V = {} THEN 0
            ELSE LET v == CHOOSE y \in V : TRUE
                 IN  v * Cardinality({x \in DOMAIN f : f[x] = v}) + sum[V \ {v}]
    IN  sum[{f[x] : x \in DOMAIN f}]

\* the commas between n members of an array or object
Commas(n) == IF n = 0 THEN 0 ELSE n - 1

-----------------------------------------------------------------------------
(* JSON texts.  JSON.stringify(v) is the record                            *)
(*   [json |-> v, length |-> number of characters, escapes |-> number of   *)
(*    characters of the text that JSON.stringify escapes (the quotes)]     *)
(* and JSON.parse reads the value back.  Every value the application       *)
(* stores is plain data (strings, booleans, arrays, objects), for which    *)
(* parse(stringify(v)) has the fields of v.                                *)

\* "..." of a string without quotes or backslashes
StrLen(s) == Len(s) + 2
BoolLen(b) == IF b THEN Len("true") ELSE Len("false")
\* Date.prototype.toISOString
IsoLength == Len("2024-03-02T08:00:00.000Z")
\* SecurityUtils.generateSecureId: prefix, Date.now() and Math.random() in base 36
IdBodyLength == Len("lt9x2k4a_4fzyo82mvyr")
\* the digits of a counter
NumLen(n) == IF n < 10 THEN 1 ELSE IF n < 100 THEN 2 ELSE 3

\* an array / object whose members have the lengths lens[x]
ArrayLen(lens) == 2 + SumFun(lens) + Commas(Cardinality(DOMAIN lens))

StringText(s) == [json |-> s, length |-> s.len + 2 + s.quotes, escapes |-> 2 + 2 * s.quotes]

\* {"9A":["Ana","Juan"], ...}
GroupsLength(G) ==
    ArrayLen([g \in DOMAIN G |->
        StrLen(g) + 1 + ArrayLen([i \in 1..Len(G[g]) |-> StrLen(G[g][i])])])
GroupsEscapes(G) ==
    SumFun([g \in DOMAIN G |-> 2 + 2 * Len(G[g])])
GroupsText(G) == [json |-> G, length |-> GroupsLength(G), escapes |-> GroupsEscapes(G)]

CommentSkeleton == "{\"text\":\"\",\"type\":\"\",\"timestamp\":\"\",\"id\":\"\"}"
CommentLength(c) ==
    Len(CommentSkeleton) + Len(c.text) + Len(c.type) + IsoLength + Len("comment_") + IdBodyLength
CommentEscapes == 2 * 8

StudentSkeleton ==
    "{\"estado\":\"\",\"bano\":,\"enfermeria\":,\"otro\":,\"apoyosEducativos\":,\"comentarios\":}"
StudentLength(r) ==
    Len(StudentSkeleton) + Len(r.estado) + BoolLen(r.bano) + BoolLen(r.enfermeria)
    + BoolLen(r.otro) + BoolLen(r.apoyosEducativos)
    + ArrayLen([i \in 1..Len(r.comentarios) |-> CommentLength(r.comentarios[i])])
StudentEscapes(r) == 2 * 7 + CommentEscapes * Len(r.comentarios)

StudentsLength(S) == ArrayLen([n \in DOMAIN S |-> StrLen(n) + 1 + StudentLength(S[n])])
StudentsEscapes(S) == SumFun([n \in DOMAIN S |-> 2 + StudentEscapes(S[n])])

SessionSkeleton ==
    "{\"id\":\"\",\"grupo\":\"\",\"fecha\":\"\",\"startTime\":\"\",\"students\":,"
    \o "\"lessonContent\":\"\",\"planningComment\":\"\",\"lessonProgress\":\"\","
    \o "\"observations\":\"\",\"improvementProposals\":\"\",\"activityTime\":\"\","
    \o "\"evaluation\":{\"activityAccessibility\":\"\",\"classMaterials\":\"\","
    \o "\"physicalSpace\":\"\",\"studentInvolvement\":\"\",\"studentAttitude\":\"\"},"
    \o "\"createdAt\":\"\",\"lastSaved\":\"\"}"
SessionLength(s) ==
    Len(SessionSkeleton) + Len("session_") + IdBodyLength + Len(s.grupo) + Len(s.fecha)
    + Len(s.startTime) + StudentsLength(s.students)
    + Len(s.lessonContent) + Len(s.planningComment) + Len(s.lessonProgress)
    + Len(s.observations) + Len(s.improvementProposals) + Len(s.activityTime)
    + Len(s.evaluation.activityAccessibility) + Len(s.evaluation.classMaterials)
    + Len(s.evaluation.physicalSpace) + Len(s.evaluation.studentInvolvement)
    + Len(s.evaluation.studentAttitude) + IsoLength + IsoLength
SessionEscapes(s) == 2 * (19 + 17) + StudentsEscapes(s.students)
SessionText(s) == [json |-> s, length |-> SessionLength(s), escapes |-> SessionEscapes(s)]

StatCommentSkeleton == "{\"fecha\":\"\",\"texto\":\"\",\"tipo\":\"\"}"
StatSkeleton ==
    "{\"presente\":,\"ausente\":,\"tarde\":,\"bano\":,\"enfermeria\":,\"otro\":,"
    \o "\"totalSesiones\":,\"comentarios\":}"
StatLength(c) ==
    Len(StatSkeleton) + NumLen(c.presente) + NumLen(c.ausente) + NumLen(c.tarde)
    + NumLen(c.bano) + NumLen(c.enfermeria) + NumLen(c.otro) + NumLen(c.totalSesiones)
    + ArrayLen([i \in 1..Len(c.comentarios) |->
         Len(StatCommentSkeleton) + Len(c.comentarios[i].fecha)
         + Len(c.comentarios[i].texto) + Len(c.comentarios[i].tipo)])
StatEscapes(c) == 2 * 8 + 2 * 6 * Len(c.comentarios)
StatisticsLength(D) ==
    ArrayLen([g \in DOMAIN D |-> StrLen(g) + 1
        + ArrayLen([n \in DOMAIN D[g] |-> StrLen(n) + 1 + StatLength(D[g][n])])])
StatisticsEscapes(D) ==
    SumFun([g \in DOMAIN D |-> 2 + SumFun([n \in DOMAIN D[g] |-> 2 + StatEscapes(D[g][n])])])
StatisticsText(D) == [json |-> D, length |-> StatisticsLength(D), escapes |-> StatisticsEscapes(D)]

\* one entry of the error log: {timestamp, message, stack, context, userAgent, url}
UserAgent == "Mozilla/5.0"
Url == "http://localhost/index.html"
LogSkeleton ==
    "{\"timestamp\":\"\",\"message\":\"\",\"stack\":\"\",\"context\":\"\",\"userAgent\":\"\",\"url\":\"\"}"
LogEntryLength(e) ==
    Len(LogSkeleton) + IsoLength + Len(e.message) + Len("Error: ") + Len(e.message)
    + Len(e.context) + Len(UserAgent) + Len(Url)
LogsLength(L) == ArrayLen([i \in 1..Len(L) |-> LogEntryLength(L[i])])
LogsEscapes(L) == 2 * 12 * Len(L)
LogsText(L) == [json |-> L, length |-> LogsLength(L), escapes |-> LogsEscapes(L)]

JSON_parse(text) == text.json

-----------------------------------------------------------------------------
(* Keys of the store.  A key is the tuple of the pieces the code           *)
(* concatenates; STORAGE_PREFIX is added by KeyLength.                     *)

GroupsKey == <<"groups">>
StatisticsKey == <<"statistics">>
TeacherKey == <<"teacher_name">>
ErrorLogsKey == <<"errorLogs">>
SessionKey(grupo, fecha) == <<"session_", grupo, "_", fecha>>
IsSessionKey(key) == Len(key) = 4

\* SecurityUtils.sanitizeAttribute: drops the characters ' " < > &
AttributeChars == {"'", "\"", "<", ">", "&"}
RECURSIVE StripAttributeChars(_)
StripAttributeChars(s) ==
    IF s = <<>> THEN <<>>
    ELSE IF Head(s) \in AttributeChars THEN StripAttributeChars(Tail(s))
    ELSE <<Head(s)>> \o StripAttributeChars(Tail(s))
sanitizeAttribute(key) ==
    IF IsSessionKey(key) THEN <<key[1], StripAttributeChars(key[2]), key[3], key[4]>> ELSE key

KeyLength(key) ==
    Len(STORAGE_PREFIX)
    + (IF IsSessionKey(key) THEN Len(key[1]) + Len(key[2]) + Len(key[3]) + Len(key[4])
       ELSE Len(key[1]))

\* JSON.stringify of the value kept under a key
JSON_stringify(key, value) ==
    CASE key = GroupsKey -> GroupsText(value)
      [] key = StatisticsKey -> StatisticsText(value)
      [] key = TeacherKey -> StringText(value)
      [] key = ErrorLogsKey -> LogsText(value)
      [] OTHER -> SessionText(value)

\* the value of F at v, with v computed once
Bind(v, F(_)) == CHOOSE y \in {F(x) : x \in {v}} : TRUE

Put(ls, key, text) == [k \in (DOMAIN ls) \cup {key} |-> IF k = key THEN text ELSE ls[k]]
Drop(ls, keys) == [k \in (DOMAIN ls) \ keys |-> ls[k]]

-----------------------------------------------------------------------------
(* js/error-handler.js                                                     *)

Logs(ls) == IF ErrorLogsKey \in DOMAIN ls THEN JSON_parse(ls[ErrorLogsKey]) ELSE <<>>

\* a log that drops the newest entries once it is full
logError_keepsOldest(ls, message, context) ==
    IF ~available THEN ls
    ELSE LET errorLog == [timestamp |-> now, message |-> message, context |-> context]
             trimmed(pushed) == IF Len(pushed) > maxLogs
                                THEN SubSeq(pushed, 1, maxLogs)
                                ELSE pushed
         IN  Put(ls, ErrorLogsKey, LogsText(trimmed(Append(Logs(ls), errorLog))))

\* ErrorHandler.logError: reads, appends, trims to the last maxLogs entries and writes
\* with localStorage.setItem directly; a failing localStorage is swallowed.
logError(ls, message, context) ==
    IF ~available THEN ls
    ELSE LET errorLog == [timestamp |-> now, message |-> message, context |-> context]
             trimmed(pushed) == IF Len(pushed) > maxLogs
                                THEN SubSeq(pushed, Len(pushed) - maxLogs + 1, Len(pushed))
                                ELSE pushed
         IN  Put(ls, ErrorLogsKey, LogsText(trimmed(Append(Logs(ls), errorLog))))

\* ErrorHandler.handle: logs, then shows the message (the display is not state of the model)
handle(ls, message, context) == logError(ls, message, context)

-----------------------------------------------------------------------------
(* js/storage.js                                                           *)

isAvailable == available

getStorageSize(ls) == SumFun([key \in DOMAIN ls |-> ls[key].length + KeyLength(key)])

\* hasSpace receives the text set has already serialized and serializes it once more:
\* JSON.stringify of a string adds the two quotes and a backslash per escaped character.
hasSpace(ls, serializedValue) ==
    LET currentSize == getStorageSize(ls)
        dataSize == serializedValue.length + 2 + serializedValue.escapes
    IN  (currentSize + dataSize) < MAX_STORAGE_SIZE

\* StorageService.set: threw is the exception thrown when localStorage is not available
StorageService_set(ls, key, value) ==
    IF ~isAvailable THEN [ls |-> ls, ret |-> FALSE, threw |-> TRUE]
    ELSE LET setItem(sanitizedKey, serializedValue) ==
                 IF ~hasSpace(ls, serializedValue)
                 THEN [ls |-> handle(ls, "No hay suficiente espacio de almacenamiento",
                                     "StorageService.set"),
                       ret |-> FALSE, threw |-> FALSE]
                 ELSE [ls |-> Put(ls, sanitizedKey, serializedValue),
                       ret |-> TRUE, threw |-> FALSE]
         IN  Bind(JSON_stringify(key, value), LAMBDA text : setItem(sanitizeAttribute(key), text))

StorageService_has(ls, key) == isAvailable /\ sanitizeAttribute(key) \in DOMAIN ls

\* StorageService.get, for a key that StorageService_has; otherwise get returns the default
StorageService_get(ls, key) == JSON_parse(ls[sanitizeAttribute(key)])

StorageService_remove(ls, key) ==
    IF ~isAvailable THEN [ls |-> ls, ret |-> FALSE]
    ELSE [ls |-> Drop(ls, {sanitizeAttribute(key)}), ret |-> TRUE]

StorageService_clear(ls) ==
    IF ~isAvailable THEN [ls |-> ls, ret |-> FALSE]
    ELSE [ls |-> Drop(ls, DOMAIN ls), ret |-> TRUE]

\* The orders in which localStorage.key(i) may enumerate the keys
Orders(S) == {o \in [1..Cardinality(S) -> S] : \A i, j \in DOMAIN o : i # j => o[i] # o[j]}

\* StorageService.createBackup: backup.data lists the entries <<key, value>> in an order of
\* localStorage.key
Backups(ls) ==
    {[i \in DOMAIN o |-> <<o[i], JSON_parse(ls[o[i]])>>] : o \in Orders(DOMAIN ls)}

\* The loop of restoreFromBackup: one set per entry, the result of set dropped
RECURSIVE Replay(_, _)
Replay(ls, entries) ==
    IF entries = <<>> THEN ls
    ELSE Replay(StorageService_set(ls, Head(entries)[1], Head(entries)[2]).ls, Tail(entries))

\* StorageService.restoreFromBackup, localStorage being available and backup.data present
StorageService_restoreFromBackup(ls, backup) == Replay(StorageService_clear(ls).ls, backup)

-----------------------------------------------------------------------------
(* The result of a call as recorded in last                                *)

Called(op, ret) == [op |-> op, ret |-> ret]

-----------------------------------------------------------------------------
(* js/validators.js: validateImportedGroups                                *)
(* The imported data is [isObject, entries]; entries lists Object.entries  *)
(* of the parsed file, each [name, isArray, students].                     *)

RECURSIVE ValidStudentsOf(_)
ValidStudentsOf(students) ==
    IF students = <<>> THEN <<>>
    ELSE LET studentValidation == validateStudentName(Head(students))
         IN  (IF studentValidation.valid THEN <<studentValidation.value>> ELSE <<>>)
             \o ValidStudentsOf(Tail(students))

\* the errors pushed for the students of one group, index counting from 1
StudentErrors(groupName, students) ==
    LET bad == {i \in 1..Len(students) : ~validateStudentName(students[i]).valid}
        RECURSIVE Build(_)
        Build(i) == IF i > Len(students) THEN <<>>
                    ELSE (IF i \in bad
                          THEN <<[group |-> groupName, student |-> i,
                                  message |-> "nombre de estudiante invalido"]>>
                          ELSE <<>>) \o Build(i + 1)
    IN  Build(1)

\* The loop over Object.entries(data): acc is [errors, validGroups]
RECURSIVE ValidateEntries(_, _)
ValidateEntries(entries, acc) ==
    IF entries = <<>> THEN acc
    ELSE LET e == Head(entries)
             groupValidation == validateGroup(e.name)
             groupError(msg) == [group |-> e.name, student |-> 0, message |-> msg]
             validStudents == ValidStudentsOf(e.students)
             next ==
                IF ~groupValidation.valid
                THEN [acc EXCEPT !.errors = Append(@, groupError("Formato de grupo invalido"))]
                ELSE IF ~e.isArray
                THEN [acc EXCEPT !.errors =
                        Append(@, groupError("debe contener una lista de estudiantes"))]
                ELSE IF Len(e.students) = 0
                THEN [acc EXCEPT !.errors = Append(@, groupError("no puede estar vacio"))]
                ELSE [errors |-> acc.errors \o StudentErrors(e.name, e.students),
                      validGroups |->
                        IF Len(validStudents) > 0
                        THEN [g \in (DOMAIN acc.validGroups) \cup {groupValidation.value} |->
                                IF g = groupValidation.value THEN validStudents
                                ELSE acc.validGroups[g]]
                        ELSE acc.validGroups]
         IN  ValidateEntries(Tail(entries), next)

NoGroups == [g \in {} |-> <<>>]

\* hasErrors tells whether the result carries an errors list (the early return has none)
validateImportedGroups(importData) ==
    IF ~importData.isObject
    THEN [valid |-> FALSE, hasErrors |-> FALSE, errors |-> <<>>, validGroups |-> NoGroups]
    ELSE LET result(r) == [valid |-> Len(r.errors) = 0, hasErrors |-> TRUE,
                           errors |-> r.errors, validGroups |-> r.validGroups]
         IN  result(ValidateEntries(importData.entries,
                                    [errors |-> <<>>, validGroups |-> NoGroups]))

RECURSIVE JoinMessages(_)
JoinMessages(errors) ==
    IF errors = <<>> THEN ""
    ELSE IF Len(errors) = 1 THEN errors[1].message
    ELSE errors[1].message \o "\n" \o JoinMessages(Tail(errors))

-----------------------------------------------------------------------------
(* js/student-manager.js: the roster registry                              *)

\* StudentManager.saveGroups: the result of set is dropped; only its exception gives false
saveGroups(ls, G) ==
    LET result(r) ==
            IF r.threw
            THEN [ls |-> handle(r.ls, "localStorage no esta disponible",
                                "StudentManager.saveGroups"),
                  ret |-> FALSE]
            ELSE [ls |-> r.ls, ret |-> TRUE]
    IN  result(StorageService_set(ls, GroupsKey, G))

SetGroup(G, g, students) == [x \in (DOMAIN G) \cup {g} |-> IF x = g THEN students ELSE G[x]]

\* StudentManager.addGroup(groupName, students); students is [isArray, items]
addGroup(groupName, students) ==
    LET groupValidation == validateGroup(groupName)
        rejected(msg) ==
            /\ localStorage' = handle(localStorage, msg, "StudentManager.addGroup")
            /\ groups' = groups
            /\ last' = Called("addGroup", FALSE)
    IN  /\ IF ~groupValidation.valid THEN rejected("Formato de grupo invalido")
           ELSE IF ~students.isArray \/ Len(students.items) = 0
           THEN rejected("Debe proporcionar una lista valida de estudiantes")
           ELSE IF \E i \in 1..Len(students.items) : ~validateStudentName(students.items[i]).valid
           THEN rejected("Estudiante invalido")
           ELSE LET validStudents == ValidStudentsOf(students.items)
                    G == SetGroup(groups, groupValidation.value, validStudents)
                    saved == saveGroups(localStorage, G)
                IN  /\ groups' = G
                    /\ localStorage' = saved.ls
                    /\ last' = Called("addGroup", saved.ret)
        /\ UNCHANGED <<available, currentStudents, currentSession, shared, isDirty,
                       autoSaveInterval, liveTimers, data, now, view>>


\* a removal that also drops the stored sessions of the group
removeGroup_cascading(groupName) ==
    LET validation == validateGroup(groupName)
        rejected(msg) ==
            /\ localStorage' = handle(localStorage, msg, "StudentManager.removeGroup")
            /\ groups' = groups
            /\ last' = Called("removeGroup", FALSE)
    IN  /\ IF ~validation.valid THEN rejected("Formato de grupo invalido")
           ELSE IF validation.value \notin DOMAIN groups THEN rejected("El grupo no existe")
           ELSE LET G == [g \in (DOMAIN groups) \ {validation.value} |-> groups[g]]
                    saved == saveGroups(localStorage, G)
                IN  /\ groups' = G
                    /\ localStorage' =
                          Drop(saved.ls, {k \in DOMAIN saved.ls :
                                            IsSessionKey(k) /\ k[2] = validation.value})
                    /\ last' = Called("removeGroup", saved.ret)
        /\ UNCHANGED <<available, currentStudents, currentSession, shared, isDirty,
                       autoSaveInterval, liveTimers, data, now, view>>

\* StudentManager.removeGroup(groupName)
removeGroup(groupName) ==
    LET validation == validateGroup(groupName)
        rejected(msg) ==
            /\ localStorage' = handle(localStorage, msg, "StudentManager.removeGroup")
            /\ groups' = groups
            /\ last' = Called("removeGroup", FALSE)
    IN  /\ IF ~validation.valid THEN rejected("Formato de grupo invalido")
           ELSE IF validation.value \notin DOMAIN groups THEN rejected("El grupo no existe")
           ELSE LET G == [g \in (DOMAIN groups) \ {validation.value} |-> groups[g]]
                    saved == saveGroups(localStorage, G)
                IN  /\ groups' = G
                    /\ localStorage' = saved.ls
                    /\ last' = Called("removeGroup", saved.ret)
        /\ UNCHANGED <<available, currentStudents, currentSession, shared, isDirty,
                       autoSaveInterval, liveTimers, data, now, view>>

\* StudentManager.createGroupsBackup
createGroupsBackup(G) == G

\* an import that commits the groups that validated, whatever the errors
importGroupsResult_partial(G, ls, groupsData) ==
    LET result(validation) ==
            LET committed(saved) ==
                    [groups |-> validation.validGroups, ls |-> saved.ls,
                     ret |-> validation.valid, errors |-> validation.errors]
            IN  committed(saveGroups(ls, validation.validGroups))
    IN  result(validateImportedGroups(groupsData))

\* The outcome of StudentManager.importGroups(groupsData): [groups, ls, ret, errors]
importGroupsResult(G, ls, groupsData) ==
    LET backup == createGroupsBackup(G)
        result(validation) ==
            IF ~validation.valid
            THEN [groups |-> G,
                  ls |-> handle(ls, IF validation.hasErrors THEN JoinMessages(validation.errors)
                                    ELSE "Cannot read properties of undefined",
                                "StudentManager.importGroups"),
                  ret |-> FALSE, errors |-> validation.errors]
            ELSE LET committed(saved) ==
                         IF saved.ret
                         THEN [groups |-> validation.validGroups, ls |-> saved.ls,
                               ret |-> TRUE, errors |-> validation.errors]
                         ELSE \* restoreGroupsFromBackup(backup), then the outer catch
                              [groups |-> backup,
                               ls |-> handle(saveGroups(saved.ls, backup).ls,
                                             "Error guardando grupos importados",
                                             "StudentManager.importGroups"),
                               ret |-> FALSE, errors |-> validation.errors]
                 IN  committed(saveGroups(ls, validation.validGroups))
    IN  result(validateImportedGroups(groupsData))

importGroups(groupsData) ==
    \E r \in {importGroupsResult(groups, localStorage, groupsData)} :
        /\ groups' = r.groups
        /\ localStorage' = r.ls
        /\ last' = [op |-> "importGroups", ret |-> r.ret, errors |-> r.errors]
        /\ UNCHANGED <<available, currentStudents, currentSession, shared, isDirty,
                       autoSaveInterval, liveTimers, data, now, view>>

-----------------------------------------------------------------------------
(* js/student-manager.js: the students of the current session              *)

NoStudents == [n \in {} |-> Null]

NewStudent == [estado |-> PRESENTE, bano |-> FALSE, enfermeria |-> FALSE, otro |-> FALSE,
               apoyosEducativos |-> FALSE, comentarios |-> <<>>]

\* StudentManager.getStudentsInGroup, for a group name that validates
getStudentsInGroup(groupName) ==
    LET validation == validateGroup(groupName)
    IN  IF validation.value \in DOMAIN groups THEN groups[validation.value] ELSE <<>>

\* StudentManager.initializeStudentsForSession: the new content of currentStudents
initializeStudentsForSession(groupName) ==
    LET students == getStudentsInGroup(groupName)
    IN  [n \in {students[i] : i \in 1..Len(students)} |-> NewStudent]

\* StudentManager.getCurrentStudentsData
getCurrentStudentsData == currentStudents

\* The comments that loadStudentsData keeps
ValidComments(comentarios) == SelectSeq(comentarios, LAMBDA c : validateComment(c.text).valid)

\* StudentManager.loadStudentsData: the new content of currentStudents.  A later entry with
\* the same validated name replaces an earlier one; the stored names of the model are
\* distinct after validation.
loadStudentsData(studentsData) ==
    LET names == {n \in DOMAIN studentsData : validateStudentName(n).valid}
    IN  [v \in {validateStudentName(n).value : n \in names} |->
            LET n == CHOOSE m \in names : validateStudentName(m).value = v
                studentData == studentsData[n]
            IN  [estado |-> IF studentData.estado \in STUDENT_STATES
                            THEN studentData.estado ELSE PRESENTE,
                 bano |-> studentData.bano,
                 enfermeria |-> studentData.enfermeria,
                 otro |-> studentData.otro,
                 apoyosEducativos |-> studentData.apoyosEducativos,
                 comentarios |-> ValidComments(studentData.comentarios)]]

-----------------------------------------------------------------------------
(* js/statistics.js                                                        *)

NoData == [g \in {} |-> NoStudents]

NewStats == [presente |-> 0, ausente |-> 0, tarde |-> 0, bano |-> 0, enfermeria |-> 0,
             otro |-> 0, totalSesiones |-> 0, comentarios |-> <<>>]

\* a count in which a late arrival is counted as present too
CountStudent_lateIsPresent(studentStats, studentData, fecha) ==
    [presente |-> studentStats.presente
                    + (IF studentData.estado \in {"presente", "tarde"} THEN 1 ELSE 0),
     ausente |-> studentStats.ausente + (IF studentData.estado = "ausente" THEN 1 ELSE 0),
     tarde |-> studentStats.tarde + (IF studentData.estado = "tarde" THEN 1 ELSE 0),
     bano |-> studentStats.bano + (IF studentData.bano THEN 1 ELSE 0),
     enfermeria |-> studentStats.enfermeria + (IF studentData.enfermeria THEN 1 ELSE 0),
     otro |-> studentStats.otro + (IF studentData.otro THEN 1 ELSE 0),
     totalSesiones |-> studentStats.totalSesiones + 1,
     comentarios |-> studentStats.comentarios \o
        [i \in 1..Len(studentData.comentarios) |->
            [fecha |-> fecha,
             texto |-> sanitizeInput(studentData.comentarios[i].text, MAX_COMMENT_LENGTH),
             tipo |-> studentData.comentarios[i].type]]]

\* The body of the forEach of updateFromSession for one student
CountStudent(studentStats, studentData, fecha) ==
    [presente |-> studentStats.presente + (IF studentData.estado = "presente" THEN 1 ELSE 0),
     ausente |-> studentStats.ausente + (IF studentData.estado = "ausente" THEN 1 ELSE 0),
     tarde |-> studentStats.tarde + (IF studentData.estado = "tarde" THEN 1 ELSE 0),
     bano |-> studentStats.bano + (IF studentData.bano THEN 1 ELSE 0),
     enfermeria |-> studentStats.enfermeria + (IF studentData.enfermeria THEN 1 ELSE 0),
     otro |-> studentStats.otro + (IF studentData.otro THEN 1 ELSE 0),
     totalSesiones |-> studentStats.totalSesiones + 1,
     comentarios |-> studentStats.comentarios \o
        [i \in 1..Len(studentData.comentarios) |->
            [fecha |-> fecha,
             texto |-> sanitizeInput(studentData.comentarios[i].text, MAX_COMMENT_LENGTH),
             tipo |-> studentData.comentarios[i].type]]]

\* StatisticsManager.updateFromSession, the update of this.data: the counters of every
\* student of the session are incremented, whatever was counted before
updateData(D, sessionData) ==
    LET grupo == sessionData.grupo
        groupStats == IF grupo \in DOMAIN D THEN D[grupo] ELSE NoStudents
        updated == [n \in (DOMAIN groupStats) \cup (DOMAIN sessionData.students) |->
                      IF n \in DOMAIN sessionData.students
                      THEN CountStudent(IF n \in DOMAIN groupStats THEN groupStats[n] ELSE NewStats,
                                        sessionData.students[n], sessionData.fecha)
                      ELSE groupStats[n]]
    IN  [g \in (DOMAIN D) \cup {grupo} |-> IF g = grupo THEN updated ELSE D[g]]

\* StatisticsManager.saveStatistics
saveStatistics(ls, D) ==
    LET result(r) ==
            IF r.threw
            THEN [ls |-> handle(r.ls, "localStorage no esta disponible",
                                "StatisticsManager.saveStatistics"),
                  ret |-> FALSE]
            ELSE [ls |-> r.ls, ret |-> r.ret]
    IN  Bind(StorageService_set(ls, StatisticsKey, D), result)

\* StatisticsManager.updateFromSession for a session with a group and students: [data, ls, ret]
updateFromSession(D, ls, sessionData) ==
    LET result(D2) ==
            LET written(saved) == [data |-> D2, ls |-> saved.ls, ret |-> saved.ret]
            IN  Bind(saveStatistics(ls, D2), written)
    IN  Bind(updateData(D, sessionData), result)

Max(S) == IF S = {} THEN 0 ELSE CHOOSE m \in S : \A x \in S : x <= m

\* a quotient of two naturals, kept exact
Ratio(num, den) == [num |-> num, den |-> den]
Zero == Ratio(0, 1)

\* StatisticsManager.getEmptyGroupSummary
getEmptyGroupSummary ==
    [totalEstudiantes |-> 0, totalSesiones |-> 0, totalPresentes |-> 0, totalAusentes |-> 0,
     totalTardes |-> 0, totalBano |-> 0, totalEnfermeria |-> 0, totalOtro |-> 0,
     promedioAsistencia |-> Zero]

\* a summary whose average divides by the sessions alone, not by students times sessions
calculateGroupSummary_perSession(groupStats) ==
    IF DOMAIN groupStats = {} THEN getEmptyGroupSummary
    ELSE LET size == Cardinality(DOMAIN groupStats)
             total(field) == SumFun([n \in DOMAIN groupStats |-> groupStats[n][field]])
             maxSesiones == Max({groupStats[n].totalSesiones : n \in DOMAIN groupStats})
         IN  [totalEstudiantes |-> size,
              totalSesiones |-> maxSesiones,
              totalPresentes |-> total("presente"),
              totalAusentes |-> total("ausente"),
              totalTardes |-> total("tarde"),
              totalBano |-> total("bano"),
              totalEnfermeria |-> total("enfermeria"),
              totalOtro |-> total("otro"),
              promedioAsistencia |->
                 IF maxSesiones > 0
                 THEN Ratio(total("presente") * 100, maxSesiones)
                 ELSE Zero]

\* StatisticsManager.calculateGroupSummary (the two top-5 lists are not modelled)
calculateGroupSummary(groupStats) ==
    IF DOMAIN groupStats = {} THEN getEmptyGroupSummary
    ELSE LET size == Cardinality(DOMAIN groupStats)
             total(field) == SumFun([n \in DOMAIN groupStats |-> groupStats[n][field]])
             maxSesiones == Max({groupStats[n].totalSesiones : n \in DOMAIN groupStats})
             totalPosibleAsistencias == size * maxSesiones
         IN  [totalEstudiantes |-> size,
              totalSesiones |-> maxSesiones,
              totalPresentes |-> total("presente"),
              totalAusentes |-> total("ausente"),
              totalTardes |-> total("tarde"),
              totalBano |-> total("bano"),
              totalEnfermeria |-> total("enfermeria"),
              totalOtro |-> total("otro"),
              promedioAsistencia |->
                 IF totalPosibleAsistencias > 0
                 THEN Ratio(total("presente") * 100, totalPosibleAsistencias)
                 ELSE Zero]

\* StatisticsManager.getGroupStatistics
getGroupStatistics(D, groupName) ==
    IF groupName \notin DOMAIN D
    THEN [students |-> NoStudents, summary |-> getEmptyGroupSummary]
    ELSE [students |-> D[groupName], summary |-> calculateGroupSummary(D[groupName])]

\* StatisticsManager.getAllStatistics
getAllStatistics(D) == [g \in DOMAIN D |-> getGroupStatistics(D, g)]

-----------------------------------------------------------------------------
(* js/session-manager.js                                                   *)

NarrativeFields == {"lessonContent", "planningComment", "lessonProgress", "observations",
                    "improvementProposals"}

\* The object literal of createSession
NewSession(grupo, fecha, startTime) ==
    [id |-> now, grupo |-> grupo, fecha |-> fecha, startTime |-> startTime,
     students |-> NoStudents,
     lessonContent |-> <<>>, planningComment |-> <<>>, lessonProgress |-> <<>>,
     observations |-> <<>>, improvementProposals |-> <<>>,
     activityTime |-> "Adecuado",
     evaluation |-> [activityAccessibility |-> "De Acuerdo", classMaterials |-> "De Acuerdo",
                     physicalSpace |-> "De Acuerdo", studentInvolvement |-> "Bueno",
                     studentAttitude |-> "Bueno"],
     createdAt |-> now, lastSaved |-> 0]

\* a merge in which the fields of the first object win
Merge_keepsFirst(a, b) ==
    [f \in (DOMAIN a) \cup (DOMAIN b) |-> IF f \in DOMAIN a THEN a[f] ELSE b[f]]

\* { ...a, ...b }
Merge(a, b) == [f \in (DOMAIN a) \cup (DOMAIN b) |-> IF f \in DOMAIN b THEN b[f] ELSE a[f]]

\* a startAutoSave that does not stop the interval already running
RestartAutoSave_leaks ==
    /\ liveTimers' = liveTimers + 1
    /\ autoSaveInterval' = TRUE

\* stopAutoSave followed by startAutoSave
RestartAutoSave ==
    /\ liveTimers' = liveTimers - (IF autoSaveInterval THEN 1 ELSE 0) + 1
    /\ autoSaveInterval' = TRUE

\* SessionManager.stopAutoSave
stopAutoSave ==
    /\ liveTimers' = liveTimers - (IF autoSaveInterval THEN 1 ELSE 0)
    /\ autoSaveInterval' = FALSE

\* SessionManager.createSession(grupo, fecha, startTime), loadExistingSession included
createSession(grupo, fecha, startTime) ==
    LET groupValidation == validateGroup(grupo)
        dateValidation == validateDate(fecha)
        timeValidation == validateTime(startTime)
        rejected(msg) ==
            /\ localStorage' = handle(localStorage, msg, "SessionManager.createSession")
            /\ last' = Called("createSession", FALSE)
            /\ UNCHANGED <<currentStudents, currentSession, shared, isDirty,
                           autoSaveInterval, liveTimers>>
    IN  /\ IF ~groupValidation.valid THEN rejected("Formato de grupo invalido")
           ELSE IF ~dateValidation.valid THEN rejected("Fecha invalida")
           ELSE IF ~timeValidation.valid THEN rejected("Formato de hora invalido (HH:MM)")
           ELSE LET studentsMap == initializeStudentsForSession(grupo)
                    created == [NewSession(groupValidation.value, dateValidation.value,
                                           timeValidation.value)
                                  EXCEPT !.students = studentsMap]
                    sessionKey == SessionKey(created.grupo, created.fecha)
                    exists == /\ StorageService_has(localStorage, sessionKey)
                              /\ StorageService_get(localStorage, sessionKey).lastSaved # 0
                    merged == Merge(created, StorageService_get(localStorage, sessionKey))
                IN  /\ currentSession' = IF exists THEN merged ELSE created
                    /\ currentStudents' = IF exists THEN loadStudentsData(merged.students)
                                          ELSE studentsMap
                    /\ shared' = ~exists
                    /\ RestartAutoSave
                    /\ isDirty' = FALSE
                    /\ last' = [op |-> "createSession", ret |-> TRUE,
                                grupo |-> grupo, fecha |-> fecha]
                    /\ UNCHANGED localStorage
        /\ UNCHANGED <<available, groups, data, now, view>>

\* SessionManager.saveSession(showNotification) on the current session cs:
\* [session, ls, data, isDirty, shared, ret].
\* students and lastSaved are assigned before the write is attempted.
saveSession(cs, dirty, showNotification) ==
    IF cs = Null
    THEN [session |-> cs,
          ls |-> IF showNotification
                 THEN handle(localStorage, "No hay sesion activa para guardar",
                             "SessionManager.saveSession")
                 ELSE localStorage,
          data |-> data, isDirty |-> dirty, shared |-> shared, ret |-> FALSE]
    ELSE LET session == [cs EXCEPT !.students = getCurrentStudentsData, !.lastSaved = now]
             sessionKey == SessionKey(cs.grupo, cs.fecha)
             \* window.bitacoraApp?.getComponent('statisticsManager')?.updateFromSession
             saved(counted) ==
                 [session |-> session, ls |-> counted.ls, data |-> counted.data,
                  isDirty |-> FALSE, shared |-> TRUE, ret |-> TRUE]
             result(written) ==
                 IF written.ret
                 THEN Bind(updateFromSession(data, written.ls, session), saved)
                 ELSE [session |-> session,
                       ls |-> handle(written.ls,
                                     IF written.threw THEN "localStorage no esta disponible"
                                     ELSE "Error al guardar en almacenamiento",
                                     "SessionManager.saveSession"),
                       data |-> data, isDirty |-> dirty, shared |-> TRUE, ret |-> FALSE]
         IN  Bind(StorageService_set(localStorage, sessionKey, session), result)

\* SessionManager.updateSessionField(field, value).  field is the tuple of the pieces of the
\* field name between its dots ('evaluation.classMaterials' is <<"evaluation",
\* "classMaterials">>); value is a string given by its characters, or NotAString.
updateSessionField(field, value) ==
    LET rejected(msg) ==
            /\ localStorage' = handle(localStorage, msg, "SessionManager.updateSessionField")
            /\ last' = [op |-> "updateSessionField", ret |-> FALSE]
            /\ UNCHANGED <<currentSession, isDirty>>
        assigned(session) ==
            /\ currentSession' = session
            /\ isDirty' = TRUE
            /\ last' = [op |-> "updateSessionField", ret |-> TRUE]
            /\ UNCHANGED localStorage
    IN  /\ IF currentSession = Null
           THEN /\ last' = [op |-> "updateSessionField", ret |-> FALSE]
                /\ UNCHANGED <<currentSession, isDirty, localStorage>>
           ELSE IF Len(field) = 1 /\ field[1] \in NarrativeFields
           THEN assigned([currentSession EXCEPT
                            ![field[1]] = sanitizeInput(value, MAX_TEXT_LENGTH)])
           ELSE IF field = <<"activityTime">>
           THEN IF ~(IsString(value) /\ Concat(value) \in TIME)
                THEN rejected("Valor de tiempo de actividad invalido")
                ELSE assigned([currentSession EXCEPT !.activityTime = Concat(value)])
           ELSE IF Len(field) >= 2 /\ field[1] = "evaluation"
           THEN IF field[2] \notin DOMAIN currentSession.evaluation
                THEN rejected("Campo de evaluacion invalido")
                ELSE assigned([currentSession EXCEPT !.evaluation[field[2]] =
                                 Concat(sanitizeInput(value, MAX_EVALUATION_LENGTH))])
           ELSE assigned(Merge(currentSession, field[1] :> value))
        /\ UNCHANGED <<available, groups, currentStudents, shared, autoSaveInterval,
                       liveTimers, data, now, view>>

\* Validators.validateSessionData
validateSessionData(sessionData) ==
    /\ validateGroup(sessionData.grupo).valid
    /\ validateDate(sessionData.fecha).valid
    /\ validateTime(sessionData.startTime).valid
    /\ \A n \in DOMAIN sessionData.students :
          /\ validateStudentName(n).valid
          /\ sessionData.students[n].estado \in STUDENT_STATES
          /\ \A i \in 1..Len(sessionData.students[n].comentarios) :
                validateComment(sessionData.students[n].comentarios[i].text).valid

\* a load that stops the autosave timer before it has looked the session up
loadSession_stopsFirst(grupo, fecha) ==
    LET sessionKey == SessionKey(grupo, fecha)
        rejected(msg) ==
            /\ localStorage' = handle(localStorage, msg, "SessionManager.loadSession")
            /\ last' = Called("loadSession", FALSE)
            /\ stopAutoSave
            /\ UNCHANGED <<currentStudents, currentSession, shared, isDirty>>
    IN  /\ IF ~StorageService_has(localStorage, sessionKey) THEN rejected("Sesion no encontrada")
           ELSE LET savedSession == StorageService_get(localStorage, sessionKey)
                IN  IF ~validateSessionData(savedSession)
                    THEN rejected("Datos de sesion invalidos")
                    ELSE /\ currentSession' = savedSession
                         /\ currentStudents' = loadStudentsData(savedSession.students)
                         /\ shared' = FALSE
                         /\ RestartAutoSave
                         /\ isDirty' = FALSE
                         /\ last' = Called("loadSession", TRUE)
                         /\ UNCHANGED localStorage
        /\ UNCHANGED <<available, groups, data, now, view>>

\* SessionManager.loadSession(grupo, fecha)
loadSession(grupo, fecha) ==
    LET sessionKey == SessionKey(grupo, fecha)
        rejected(msg) ==
            /\ localStorage' = handle(localStorage, msg, "SessionManager.loadSession")
            /\ last' = Called("loadSession", FALSE)
            /\ UNCHANGED <<currentStudents, currentSession, shared, isDirty,
                           autoSaveInterval, liveTimers>>
    IN  /\ IF ~StorageService_has(localStorage, sessionKey) THEN rejected("Sesion no encontrada")
           ELSE LET savedSession == StorageService_get(localStorage, sessionKey)
                IN  IF ~validateSessionData(savedSession)
                    THEN rejected("Datos de sesion invalidos")
                    ELSE /\ currentSession' = savedSession
                         /\ currentStudents' = loadStudentsData(savedSession.students)
                         /\ shared' = FALSE
                         /\ RestartAutoSave
                         /\ isDirty' = FALSE
                         /\ last' = Called("loadSession", TRUE)
                         /\ UNCHANGED localStorage
        /\ UNCHANGED <<available, groups, data, now, view>>


\* every counter of the statistics is below the bound of the model
CountersBelow(bound) ==
    \A g \in DOMAIN data : \A n \in DOMAIN data[g] : data[g][n].totalSesiones < bound

\* an interval callback that saves the open session whether or not it is dirty
autoSaveTick_always ==
    /\ liveTimers > 0
    /\ CountersBelow(MaxSessions)
    /\ IF currentSession # Null
       THEN \E r \in {saveSession(currentSession, isDirty, FALSE)} :
                /\ currentSession' = r.session
                /\ localStorage' = r.ls
                /\ data' = r.data
                /\ isDirty' = r.isDirty
                /\ shared' = r.shared
                /\ last' = Called("autoSave", r.ret)
       ELSE /\ last' = Called("autoSave", FALSE)
            /\ UNCHANGED <<currentSession, localStorage, data, isDirty, shared>>
    /\ UNCHANGED <<available, groups, currentStudents, autoSaveInterval, liveTimers, now, view>>

\* The callback of setInterval in startAutoSave; it runs while a timer is live
autoSaveTick ==
    /\ liveTimers > 0
    /\ CountersBelow(MaxSessions)
    /\ IF isDirty /\ currentSession # Null
       THEN \E r \in {saveSession(currentSession, isDirty, FALSE)} :
                /\ currentSession' = r.session
                /\ localStorage' = r.ls
                /\ data' = r.data
                /\ isDirty' = r.isDirty
                /\ shared' = r.shared
                /\ last' = Called("autoSave", r.ret)
       ELSE /\ last' = Called("autoSave", FALSE)
            /\ UNCHANGED <<currentSession, localStorage, data, isDirty, shared>>
    /\ UNCHANGED <<available, groups, currentStudents, autoSaveInterval, liveTimers, now, view>>

\* SessionManager.deleteSession(grupo, fecha)
deleteSession(grupo, fecha) ==
    LET r == StorageService_remove(localStorage, SessionKey(grupo, fecha))
    IN  /\ localStorage' = r.ls
        /\ last' = [op |-> "deleteSession", ret |-> r.ret, grupo |-> grupo,
                    removed |-> r.ret /\ SessionKey(grupo, fecha) \in DOMAIN localStorage]
        /\ UNCHANGED <<available, groups, currentStudents, currentSession, shared, isDirty,
                       autoSaveInterval, liveTimers, data, now, view>>

\* SessionManager.clearCurrentSession
clearCurrentSession ==
    /\ stopAutoSave
    /\ currentSession' = Null
    /\ isDirty' = FALSE
    /\ currentStudents' = NoStudents
    /\ shared' = FALSE
    /\ last' = Called("clearCurrentSession", TRUE)
    /\ UNCHANGED <<localStorage, available, groups, data, now, view>>

-----------------------------------------------------------------------------
\* SessionManager.startAutoSave, called on its own
startAutoSave ==
    /\ RestartAutoSave
    /\ last' = Called("startAutoSave", TRUE)
    /\ UNCHANGED <<localStorage, available, groups, currentStudents, currentSession, shared,
                   isDirty, data, now, view>>

\* SessionManager.destroy
destroy ==
    /\ stopAutoSave
    /\ currentSession' = Null
    /\ isDirty' = FALSE
    /\ shared' = FALSE
    /\ last' = Called("destroy", TRUE)
    /\ UNCHANGED <<localStorage, available, groups, currentStudents, data, now, view>>

(* js/ui-manager.js                                                        *)

\* a JavaScript value handed to updateStudentState: [type, v]
JsString(v) == [type |-> "string", v |-> v]
JsBoolean(v) == [type |-> "boolean", v |-> v]

FlagFields == {"bano", "enfermeria", "otro", "apoyosEducativos"}

\* StudentManager.updateStudentState(studentName, field, value): does it accept the update
AcceptsStudentState(studentName, field, value) ==
    /\ validateStudentName(studentName).valid
    /\ validateStudentName(studentName).value \in DOMAIN currentStudents
    /\ \/ field = "estado" /\ value.type = "string" /\ value.v \in STUDENT_STATES
       \/ field \in FlagFields /\ value.type = "boolean"

\* an updateStudentState of the user interface that does not mark the session dirty
updateStudentState_unmarked(studentName, field, value) ==
    /\ IF AcceptsStudentState(studentName, field, value)
       THEN LET n == validateStudentName(studentName).value
            IN  /\ currentStudents' = [currentStudents EXCEPT ![n][field] = value.v]
                /\ currentSession' =
                      IF shared /\ currentSession # Null /\ n \in DOMAIN currentSession.students
                      THEN [currentSession EXCEPT !.students[n][field] = value.v]
                      ELSE currentSession
                /\ last' = Called("updateStudentState", TRUE)
                /\ UNCHANGED <<localStorage, isDirty>>
       ELSE /\ localStorage' = handle(localStorage, "Estado invalido",
                                      "StudentManager.updateStudentState")
            /\ last' = Called("updateStudentState", FALSE)
            /\ UNCHANGED <<currentStudents, currentSession, isDirty>>
    /\ UNCHANGED <<available, groups, shared, autoSaveInterval, liveTimers, data, now, view>>

\* UIManager.updateStudentState: StudentManager.updateStudentState, then markDirty if accepted.
\* The record updated is an object; when the session holds the same object it changes too.
updateStudentState(studentName, field, value) ==
    /\ IF AcceptsStudentState(studentName, field, value)
       THEN LET n == validateStudentName(studentName).value
            IN  /\ currentStudents' = [currentStudents EXCEPT ![n][field] = value.v]
                /\ currentSession' =
                      IF shared /\ currentSession # Null /\ n \in DOMAIN currentSession.students
                      THEN [currentSession EXCEPT !.students[n][field] = value.v]
                      ELSE currentSession
                /\ isDirty' = TRUE
                /\ last' = Called("updateStudentState", TRUE)
                /\ UNCHANGED localStorage
       ELSE /\ localStorage' = handle(localStorage, "Estado invalido",
                                      "StudentManager.updateStudentState")
            /\ last' = Called("updateStudentState", FALSE)
            /\ UNCHANGED <<currentStudents, currentSession, isDirty>>
    /\ UNCHANGED <<available, groups, shared, autoSaveInterval, liveTimers, data, now, view>>

\* Math.random().toString(36).substring(2) in SecurityUtils.generateSecureId
RandomSuffixes == {"4fzyo82mvyr", "k2j8x0qzr1p"}

\* StudentManager.addStudentComment(studentName, commentText, type); the comment is pushed
\* onto the array of the student's record, which the session holds too when it holds the
\* record
addStudentComment(studentName, commentText, type) ==
    LET nameValidation == validateStudentName(studentName)
        commentValidation == validateComment(commentText)
        rejected(msg) ==
            /\ localStorage' = handle(localStorage, msg, "StudentManager.addStudentComment")
            /\ last' = Called("addStudentComment", FALSE)
            /\ UNCHANGED <<currentStudents, currentSession>>
    IN  IF ~nameValidation.valid THEN rejected("El nombre es requerido")
        ELSE IF ~commentValidation.valid THEN rejected("El comentario no puede estar vacio")
        ELSE IF type \notin COMMENT_TYPES THEN rejected("Tipo de comentario invalido")
        ELSE IF nameValidation.value \notin DOMAIN currentStudents
        THEN rejected("Estudiante no encontrado en la sesion actual")
        ELSE \E random \in RandomSuffixes :
             LET n == nameValidation.value
                 comment == [text |-> commentValidation.value, type |-> type,
                             timestamp |-> now, id |-> <<"comment_", now, random>>]
             IN  /\ currentStudents' =
                       [currentStudents EXCEPT ![n].comentarios = Append(@, comment)]
                 /\ currentSession' =
                       IF shared /\ currentSession # Null
                          /\ n \in DOMAIN currentSession.students
                       THEN [currentSession EXCEPT
                               !.students[n].comentarios = Append(@, comment)]
                       ELSE currentSession
                 /\ last' = Called("addStudentComment", TRUE)
                 /\ UNCHANGED localStorage

\* UIManager.saveComment(studentName, commentText): the text is validated, the validated
\* value is handed to addStudentComment, and the session is marked dirty if it was added
saveComment(studentName, commentText) ==
    /\ IF ~validateComment(commentText).valid
       THEN /\ last' = Called("saveComment", FALSE)
            /\ UNCHANGED <<currentStudents, currentSession, localStorage, isDirty>>
       ELSE /\ addStudentComment(studentName, validateComment(commentText).value, GENERAL)
            /\ isDirty' = (isDirty \/ last'.ret)
    /\ UNCHANGED <<available, groups, shared, autoSaveInterval, liveTimers, data, now, view>>

\* SessionManager.getCurrentAttendanceStats: the tally of the student records that the
\* current session holds.  (A state outside STUDENT_STATES would get a counter of its own,
\* outside the total; the sessions of the model hold none.)
getCurrentAttendanceStats ==
    IF currentSession = Null
    THEN [presente |-> 0, ausente |-> 0, tarde |-> 0, total |-> 0]
    ELSE LET students == currentSession.students
             count(e) == Cardinality({n \in DOMAIN students : students[n].estado = e})
         IN  [presente |-> count("presente"), ausente |-> count("ausente"),
              tarde |-> count("tarde"),
              total |-> count("presente") + count("ausente") + count("tarde")]

\* the filter of getStudentsWithIncidents
HasIncident(student) ==
    \/ student.estado # PRESENTE
    \/ student.bano
    \/ student.enfermeria
    \/ student.otro
    \/ Len(student.comentarios) > 0

\* SessionManager.getStudentsWithIncidents: the entries of the current session's students
\* that pass the filter, by name
getStudentsWithIncidents ==
    IF currentSession = Null THEN NoStudents
    ELSE LET students == currentSession.students
         IN  [n \in {m \in DOMAIN students : HasIncident(students[m])} |-> students[n]]

\* PDFGenerator reads the tally and the incidents of the current session
readAttendanceStats ==
    /\ last' = [op |-> "getCurrentAttendanceStats", ret |-> TRUE,
                stats |-> getCurrentAttendanceStats]
    /\ UNCHANGED <<localStorage, available, groups, currentStudents, currentSession, shared,
                   isDirty, autoSaveInterval, liveTimers, data, now, view>>

readStudentsWithIncidents ==
    /\ last' = [op |-> "getStudentsWithIncidents", ret |-> TRUE,
                incidents |-> getStudentsWithIncidents]
    /\ UNCHANGED <<localStorage, available, groups, currentStudents, currentSession, shared,
                   isDirty, autoSaveInterval, liveTimers, data, now, view>>

\* UIManager._readLessonFieldsFromDom: dom gives the value of each lesson field of the form
readLessonFieldsFromDom(session, dom) ==
    [f \in DOMAIN session |->
        IF f \in NarrativeFields /\ Trim(dom[f]) # <<>> THEN dom[f] ELSE session[f]]

\* the arguments of the createSession call that has just succeeded, if that was the last call
JustCreated ==
    IF last.op = "createSession" /\ last.ret
    THEN <<[grupo |-> last.grupo, fecha |-> last.fecha]>>
    ELSE <<>>

\* UIManager.saveSession: the save button
UIManager_saveSession(dom) ==
    /\ CountersBelow(MaxSessions)
    /\ IF currentSession = Null
       THEN /\ last' = [op |-> "UIManager.saveSession", ret |-> FALSE, created |-> <<>>]
            /\ UNCHANGED <<currentSession, localStorage, data, isDirty, shared>>
       ELSE \E r \in {saveSession(readLessonFieldsFromDom(currentSession, dom), TRUE, TRUE)} :
            \E counted \in {updateFromSession(r.data, r.ls, r.session)} :
                /\ currentSession' = r.session
                /\ isDirty' = r.isDirty
                /\ shared' = r.shared
                /\ localStorage' = IF r.ret THEN counted.ls ELSE r.ls
                /\ data' = IF r.ret THEN counted.data ELSE r.data
                /\ last' = [op |-> "UIManager.saveSession", ret |-> r.ret,
                            created |-> JustCreated]
    /\ UNCHANGED <<available, groups, currentStudents, autoSaveInterval, liveTimers, now, view>>

\* UIManager.syncLessonFields: the lesson fields are read from the form, then
\* SessionManager.saveSession(false) is called, whether or not a session is open
syncLessonFields(dom) ==
    /\ CountersBelow(MaxSessions)
    /\ \E r \in {saveSession(IF currentSession = Null THEN Null
                             ELSE readLessonFieldsFromDom(currentSession, dom),
                             isDirty, FALSE)} :
           /\ currentSession' = r.session
           /\ localStorage' = r.ls
           /\ data' = r.data
           /\ isDirty' = r.isDirty
           /\ shared' = r.shared
           /\ last' = Called("saveSession", r.ret)
    /\ UNCHANGED <<available, groups, currentStudents, autoSaveInterval, liveTimers, now, view>>

\* a read that counts itself as one more session of every student
showStatistics_accumulating ==
    /\ data' = [g \in DOMAIN data |->
                  [n \in DOMAIN data[g] |-> [data[g][n] EXCEPT !.totalSesiones = @ + 1]]]
    /\ view' = getAllStatistics(data')
    /\ last' = Called("getAllStatistics", TRUE)
    /\ UNCHANGED <<localStorage, available, groups, currentStudents, currentSession, shared,
                   isDirty, autoSaveInterval, liveTimers, now>>


\* UIManager.showStatistics: reads StatisticsManager.getAllStatistics
showStatistics ==
    /\ view' = getAllStatistics(data)
    /\ last' = Called("getAllStatistics", TRUE)
    /\ UNCHANGED <<localStorage, available, groups, currentStudents, currentSession, shared,
                   isDirty, autoSaveInterval, liveTimers, data, now>>

\* A read of StatisticsManager.getGroupStatistics(groupName)
readGroupStatistics(groupName) ==
    /\ view' = [g \in {groupName} |-> getGroupStatistics(data, groupName)]
    /\ last' = Called("getGroupStatistics", TRUE)
    /\ UNCHANGED <<localStorage, available, groups, currentStudents, currentSession, shared,
                   isDirty, autoSaveInterval, liveTimers, data, now>>


\* The "save teacher name" button: StorageService.set('teacher_name', name); an exception of
\* set reaches the window error handler, which logs it
saveTeacherName(name) ==
    LET r == StorageService_set(localStorage, TeacherKey, name)
    IN  /\ localStorage' = IF r.threw
                           THEN handle(r.ls, "localStorage no esta disponible", "window.onerror")
                           ELSE r.ls
        /\ last' = Called("saveTeacherName", r.ret)
        /\ UNCHANGED <<available, groups, currentStudents, currentSession, shared, isDirty,
                       autoSaveInterval, liveTimers, data, now, view>>

\* UIManager.clearAllData, confirmed: StorageService.clear, then clearCurrentSession
clearAllData ==
    /\ DOMAIN localStorage # {}
    /\ LET r == StorageService_clear(localStorage)
       IN  /\ localStorage' = r.ls
           /\ last' = Called("clearAllData", r.ret)
           /\ IF r.ret
              THEN /\ stopAutoSave
                   /\ currentSession' = Null
                   /\ isDirty' = FALSE
                   /\ currentStudents' = NoStudents
                   /\ shared' = FALSE
              ELSE UNCHANGED <<autoSaveInterval, liveTimers, currentSession, isDirty,
                               currentStudents, shared>>
    /\ UNCHANGED <<available, groups, data, now, view>>

-----------------------------------------------------------------------------
(* Calls of the store made from outside the managers                       *)

\* StorageService.remove(key)
remove(key) ==
    LET r == StorageService_remove(localStorage, key)
    IN  /\ localStorage' = r.ls
        /\ last' = Called("remove", r.ret)
        /\ UNCHANGED <<available, groups, currentStudents, currentSession, shared, isDirty,
                       autoSaveInterval, liveTimers, data, now, view>>

\* StorageService.restoreFromBackup(backup); backup is [hasData, data], data the entries of
\* backup.data in their order.  An exception is recorded as a call without a true result.
restoreFromBackup(backup) ==
    /\ IF ~isAvailable \/ ~backup.hasData
       THEN /\ last' = [op |-> "restoreFromBackup", ret |-> FALSE, backup |-> backup]
            /\ UNCHANGED localStorage
       ELSE /\ localStorage' = StorageService_restoreFromBackup(localStorage, backup.data)
            /\ last' = [op |-> "restoreFromBackup", ret |-> TRUE, backup |-> backup]
    /\ UNCHANGED <<available, groups, currentStudents, currentSession, shared, isDirty,
                   autoSaveInterval, liveTimers, data, now, view>>

\* ErrorHandler.handle(error, context) called for an error of the presentation layer
reportError(message, context) ==
    /\ localStorage' = handle(localStorage, message, context)
    /\ last' = Called("handle", TRUE)
    /\ UNCHANGED <<available, groups, currentStudents, currentSession, shared, isDirty,
                   autoSaveInterval, liveTimers, data, now, view>>

-----------------------------------------------------------------------------
(* The environment                                                         *)

\* time passes
Tick ==
    /\ now < MaxClock
    /\ now' = now + 1
    /\ last' = Called("tick", TRUE)
    /\ UNCHANGED <<localStorage, available, groups, currentStudents, currentSession, shared,
                   isDirty, autoSaveInterval, liveTimers, data, view>>

\* localStorage starts or stops accepting access (disabled, or the quota of the browser)
SetAvailable(b) ==
    /\ available # b
    /\ available' = b
    /\ last' = Called("available", b)
    /\ UNCHANGED <<localStorage, groups, currentStudents, currentSession, shared,
                   isDirty, autoSaveInterval, liveTimers, data, now, view>>

\* StudentManager.loadGroups
loadGroups(ls) ==
    IF StorageService_has(ls, GroupsKey) /\ DOMAIN StorageService_get(ls, GroupsKey) # {}
    THEN StorageService_get(ls, GroupsKey) ELSE NoGroups

\* StatisticsManager.loadStatistics
loadStatistics(ls) ==
    IF StorageService_has(ls, StatisticsKey) THEN StorageService_get(ls, StatisticsKey) ELSE NoData

NoView == [g \in {} |-> Null]

\* The page is loaded again: BitacoraApp.initializeComponents constructs the managers
Reload ==
    /\ groups' = loadGroups(localStorage)
    /\ data' = loadStatistics(localStorage)
    /\ currentStudents' = NoStudents
    /\ currentSession' = Null
    /\ shared' = FALSE
    /\ isDirty' = FALSE
    /\ autoSaveInterval' = FALSE
    /\ liveTimers' = 0
    /\ view' = NoView
    /\ last' = Called("constructor", TRUE)
    /\ UNCHANGED <<localStorage, available, now>>

\* The state after construction on an empty store
Init ==
    /\ localStorage = [k \in {} |-> Null]
    /\ available = TRUE
    /\ groups = NoGroups
    /\ currentStudents = NoStudents
    /\ currentSession = Null
    /\ shared = FALSE
    /\ isDirty = FALSE
    /\ autoSaveInterval = FALSE
    /\ liveTimers = 0
    /\ data = NoData
    /\ now = 1
    /\ view = NoView
    /\ last = Called("constructor", TRUE)

\* the errors logged stay within the bound of the model
LogBounded == Len(Logs(localStorage')) <= MaxLogged

-----------------------------------------------------------------------------
(* Inputs                                                                  *)

AnaLopez == <<"A","n","a"," ","L","o","p","e","z">>
JuanPerez == <<"J","u","a","n"," ","P","e","r","e","z">>
Group9A == <<"9","A">>
Group8B == <<"8","B">>
Group7C == <<"7","C">>
Array(items) == [isArray |-> TRUE, items |-> items]
NotAnArray == [isArray |-> FALSE, items |-> <<>>]
ExampleDate == "2024-03-01"
EmptyDom == [f \in NarrativeFields |-> <<>>]
TypedDom == [EmptyDom EXCEPT !["lessonContent"] = <<" ","o","k">>]
\* a name that fills the store: with it alone the check of hasSpace still passes
Padded9A == <<" ","9","A">>
LowerCase9a == <<"9","a">>
FutureDate == "2024-03-09"
SessionInputs ==
    {<<Group9A, ExampleDate, "08:00">>, <<Padded9A, ExampleDate, "08:00">>,
     <<Group9A, FutureDate, "08:00">>}
J0hn == <<"J","0","h","n">>
ImportObject(entries) == [isObject |-> TRUE, entries |-> entries]
Entry(name, students) == [name |-> name, isArray |-> students.isArray, students |-> students.items]
NotAnObject == [isObject |-> FALSE, entries |-> <<>>]
OneInvalidName == ImportObject(<<Entry(Group9A, Array(<<AnaLopez, J0hn, JuanPerez>>))>>)
InvalidGroupName == ImportObject(<<Entry(Group8B, Array(<<JuanPerez>>)),
                                   Entry(LowerCase9a, Array(<<AnaLopez>>))>>)
NotAList == ImportObject(<<Entry(Group9A, NotAnArray)>>)
EmptyList == ImportObject(<<Entry(Group9A, Array(<<>>))>>)
ValidImport == ImportObject(<<Entry(Group8B, Array(<<JuanPerez, AnaLopez>>))>>)
ImportInputs == {NotAnObject, OneInvalidName, InvalidGroupName, NotAList, EmptyList, ValidImport}
ShortName == [tag |-> "short", len |-> 4, quotes |-> 0]
BigName == [tag |-> "big", len |-> 3000000, quotes |-> 0]
NoBackupData == [hasData |-> FALSE, data |-> <<>>]
ForeignBackup == [hasData |-> TRUE,
                  data |-> <<<<GroupsKey, (Group8B :> <<JuanPerez>>)>>,
                             <<TeacherKey, ShortName>>>>]
FullName == [tag |-> "full", len |-> MAX_STORAGE_SIZE - 40, quotes |-> 0]
\* a backup that holds a session of 8B with a student state that is not one of STUDENT_STATES
CorruptSession ==
    [NewSession(Group8B, ExampleDate, "08:00")
       EXCEPT !.students = (JuanPerez :> [NewStudent EXCEPT !.estado = "enfermo"]),
              !.lastSaved = Today]
CorruptBackup == [hasData |-> TRUE,
                  data |-> <<<<SessionKey(Group8B, ExampleDate), CorruptSession>>>>]
LoadInputs == {Group9A, Padded9A, Group8B}
\* a list that names one student twice
TwiceAna == <<AnaLopez, AnaLopez>>
MariaRuiz == <<"M","a","r","i","a"," ","R","u","i","z">>
RosterInputs == {<<AnaLopez, JuanPerez>>, <<JuanPerez, MariaRuiz>>}
Ok == <<"o","k">>
BuenTrabajo == <<"B","u","e","n"," ","t","r","a","b","a","j","o">>
Dots == <<".",".",".">>
LongComment == [i \in 1..(MAX_COMMENT_LENGTH + 1) |-> "a"]
CommentInputs == {Ok, BuenTrabajo, Dots, LongComment}
Regular == <<"R","e","g","u","l","a","r">>
Moderado == <<"M","o","d","e","r","a","d","o">>
Malo == <<"M","a","l","o">>
FieldInputs ==
    {<<<<"evaluation", "studentAttitude">>, Regular>>,
     <<<<"evaluation", "studentAttitude">>, Malo>>,
     <<<<"evaluation", "classMaterials">>, NotAString>>,
     <<<<"evaluation", "grade">>, Regular>>,
     <<<<"activityTime">>, Moderado>>,
     <<<<"activityTime">>, Malo>>,
     <<<<"lessonContent">>, <<" ","o","k">>>>}
\* field names that are not the session's to edit, among ones that are
IdentityInputs ==
    {<<<<"grupo">>, Group8B>>,
     <<<<"students">>, NotAString>>,
     <<<<"evaluation", "grade">>, Regular>>,
     <<<<"evaluation", "studentAttitude">>, Regular>>,
     <<<<"lessonContent">>, <<" ","o","k">>>>}

-----------------------------------------------------------------------------
(* Sessions and statistics                                                 *)

NextStats ==
    \/ addGroup(Group9A, Array(<<AnaLopez, JuanPerez>>))
    \/ createSession(Group9A, ExampleDate, "08:00")
    \/ createSession(Group8B, ExampleDate, "08:00")
    \/ \E e \in {"presente", "ausente"} :
          /\ AnaLopez \in DOMAIN currentStudents
          /\ updateStudentState(AnaLopez, "estado", JsString(e))
    \/ UIManager_saveSession(EmptyDom)
    \/ autoSaveTick
    \/ showStatistics
    \/ \E g \in {Group9A, Group7C} : readGroupStatistics(g)
    \/ deleteSession(Group9A, ExampleDate)

SpecStats == Init /\ [][NextStats]_vars

\* Sessions: created, edited, saved, loaded and deleted, with arguments that are
\* accepted as written, accepted after trimming, and rejected
Next ==
    \/ addGroup(Group9A, Array(<<AnaLopez, JuanPerez>>))
    \/ \E a \in SessionInputs : createSession(a[1], a[2], a[3]) /\ LogBounded
    \/ /\ AnaLopez \in DOMAIN currentStudents
       /\ updateStudentState(AnaLopez, "estado", JsString("ausente"))
    \/ UIManager_saveSession(TypedDom)
    \/ \E g \in {Group9A, Padded9A} : loadSession(g, ExampleDate) /\ LogBounded
    \/ deleteSession(Group9A, ExampleDate)
    \/ autoSaveTick
    \/ clearCurrentSession

Spec == Init /\ [][Next]_vars

\* The fields of the open session edited, with values inside and outside the options
NextField ==
    \/ createSession(Group9A, ExampleDate, "08:00")
    \/ \E a \in FieldInputs : updateSessionField(a[1], a[2]) /\ LogBounded
    \/ UIManager_saveSession(EmptyDom)
    \/ loadSession(Group9A, ExampleDate) /\ LogBounded
    \/ autoSaveTick
    \/ clearCurrentSession

SpecField == Init /\ [][NextField]_vars

\* The roster edited between the saves and the openings of a session
NextMerge ==
    \/ \E r \in RosterInputs : addGroup(Group9A, Array(r))
    \/ removeGroup(Group9A) /\ LogBounded
    \/ importGroups(ValidImport)
    \/ createSession(Group9A, ExampleDate, "08:00")
    \/ /\ AnaLopez \in DOMAIN currentStudents
       /\ \/ updateStudentState(AnaLopez, "estado", JsString("ausente"))
          \/ updateStudentState(AnaLopez, "bano", JsBoolean(TRUE))
    \/ updateSessionField(<<"evaluation", "studentAttitude">>, Regular)
    \/ UIManager_saveSession(TypedDom)
    \/ clearCurrentSession

SpecMerge == Init /\ [][NextMerge]_vars

\* The students of the open session edited and commented, and the session read
NextStudents ==
    \/ addGroup(Group9A, Array(<<AnaLopez, JuanPerez>>))
    \/ createSession(Group9A, ExampleDate, "08:00")
    \/ loadSession(Group9A, ExampleDate) /\ LogBounded
    \/ /\ AnaLopez \in DOMAIN currentStudents
       /\ \E e \in {"ausente", "tarde"} : updateStudentState(AnaLopez, "estado", JsString(e))
    \/ /\ JuanPerez \in DOMAIN currentStudents
       /\ updateStudentState(JuanPerez, "bano", JsBoolean(TRUE))
    \/ \E c \in CommentInputs :
          /\ AnaLopez \in DOMAIN currentStudents
          /\ Len(currentStudents[AnaLopez].comentarios) < MaxComments
          /\ saveComment(AnaLopez, c)
    \/ UIManager_saveSession(EmptyDom)
    \/ readAttendanceStats
    \/ readStudentsWithIncidents
    \/ clearCurrentSession

SpecStudents == Init /\ [][NextStudents]_vars

\* Sessions opened and loaded with arguments and stored sessions that are refused
NextReject ==
    \/ addGroup(Group9A, Array(<<AnaLopez, JuanPerez>>))
    \/ \E a \in SessionInputs : createSession(a[1], a[2], a[3]) /\ LogBounded
    \/ /\ AnaLopez \in DOMAIN currentStudents
       /\ updateStudentState(AnaLopez, "estado", JsString("ausente"))
    \/ syncLessonFields(EmptyDom)
    \/ \E g \in LoadInputs : loadSession(g, ExampleDate) /\ LogBounded
    \/ restoreFromBackup(CorruptBackup) /\ LogBounded
    \/ clearCurrentSession

SpecReject == Init /\ [][NextReject]_vars

\* The roster registry: groups added, removed and imported, on a store that can be full or
\* unavailable
NextRoster ==
    \/ addGroup(Group9A, Array(<<AnaLopez, JuanPerez>>)) /\ LogBounded
    \/ \E g \in {Group9A, Group8B} : removeGroup(g) /\ LogBounded
    \/ \E d \in ImportInputs : importGroups(d) /\ LogBounded
    \/ saveTeacherName(FullName) /\ LogBounded
    \/ remove(TeacherKey)
    \/ \E b \in BOOLEAN : SetAvailable(b)
    \/ Reload

SpecRoster == Init /\ [][NextRoster]_vars

\* The store: values written, removed, cleared, backed up and restored, and errors logged
NextStore ==
    \/ \E name \in {ShortName, BigName, FullName} : saveTeacherName(name) /\ LogBounded
    \/ addGroup(Group9A, Array(<<AnaLopez, JuanPerez>>)) /\ LogBounded
    \/ \E key \in {TeacherKey, GroupsKey} : remove(key)
    \/ clearAllData
    \/ \E b \in {NoBackupData, ForeignBackup} : restoreFromBackup(b) /\ LogBounded
    \/ \E d \in Backups(localStorage) :
          restoreFromBackup([hasData |-> TRUE, data |-> d]) /\ LogBounded
    \/ reportError("render", "UIManager") /\ LogBounded
    \/ Tick

SpecStore == Init /\ [][NextStore]_vars


\* Saving on a store that can be unavailable or full
NextSave ==
    \/ addGroup(Group9A, Array(<<AnaLopez, JuanPerez>>)) /\ LogBounded
    \/ createSession(Group9A, ExampleDate, "08:00")
    \/ /\ AnaLopez \in DOMAIN currentStudents
       /\ updateStudentState(AnaLopez, "estado", JsString("ausente"))
    \/ syncLessonFields(EmptyDom) /\ LogBounded
    \/ autoSaveTick /\ LogBounded
    \/ loadSession(Group9A, ExampleDate) /\ LogBounded
    \/ \E b \in BOOLEAN : SetAvailable(b)
    \/ saveTeacherName(FullName) /\ LogBounded
    \/ remove(TeacherKey)
    \/ clearCurrentSession

SpecSave == Init /\ [][NextSave]_vars

\* The session manager's timer: sessions opened, closed and torn down
NextTimer ==
    \/ addGroup(Group9A, Array(<<AnaLopez, JuanPerez>>))
    \/ createSession(Group9A, ExampleDate, "08:00")
    \/ /\ AnaLopez \in DOMAIN currentStudents
       /\ \E e \in {"ausente", "tarde"} : updateStudentState(AnaLopez, "estado", JsString(e))
    \/ UIManager_saveSession(EmptyDom) /\ LogBounded
    \/ \E g \in {Group9A, Group8B} : loadSession(g, ExampleDate) /\ LogBounded
    \/ startAutoSave
    \/ autoSaveTick /\ LogBounded
    \/ \E b \in BOOLEAN : SetAvailable(b)
    \/ clearCurrentSession
    \/ destroy

SpecTimer == Init /\ [][NextTimer]_vars

\* One session that stays open until it is closed, edited between the ticks of its timer;
\* the store accepts every write.  An edit is made while the statistics are within the
\* bound of the model, so the save that follows it is too.
NextPersist ==
    \/ addGroup(Group9A, Array(<<AnaLopez, JuanPerez>>))
    \/ currentSession = Null /\ createSession(Group9A, ExampleDate, "08:00")
    \/ /\ AnaLopez \in DOMAIN currentStudents
       /\ CountersBelow(MaxSessions)
       /\ \/ \E e \in {"ausente", "tarde"} : updateStudentState(AnaLopez, "estado", JsString(e))
          \/ updateStudentState(AnaLopez, "bano", JsBoolean(TRUE))
    \/ /\ currentSession # Null
       /\ CountersBelow(MaxSessions)
       /\ \/ updateSessionField(<<"evaluation", "studentAttitude">>, Regular)
          \/ updateSessionField(<<"activityTime">>, Moderado)
    \/ autoSaveTick
    \/ clearCurrentSession

\* the interval callback keeps firing while its timer is live
SpecPersist == Init /\ [][NextPersist]_vars /\ WF_vars(autoSaveTick)

\* Sessions counted by the statistics: states and flags set, saved by hand and by the timer
NextCount ==
    \/ addGroup(Group9A, Array(<<AnaLopez, JuanPerez>>))
    \/ createSession(Group9A, ExampleDate, "08:00")
    \/ /\ AnaLopez \in DOMAIN currentStudents
       /\ \E e \in {"ausente", "tarde"} : updateStudentState(AnaLopez, "estado", JsString(e))
    \/ /\ JuanPerez \in DOMAIN currentStudents
       /\ \E f \in {"bano", "enfermeria"} : updateStudentState(JuanPerez, f, JsBoolean(TRUE))
    \/ UIManager_saveSession(EmptyDom)
    \/ autoSaveTick
    \/ loadSession(Group9A, ExampleDate) /\ LogBounded

SpecCount == Init /\ [][NextCount]_vars

\* The roster registry, with lists that repeat a name
NextNames ==
    \/ \E r \in {<<AnaLopez, JuanPerez>>, TwiceAna} : addGroup(Group9A, Array(r)) /\ LogBounded
    \/ \E g \in {Group9A, Group8B} : removeGroup(g) /\ LogBounded
    \/ \E d \in ImportInputs : importGroups(d) /\ LogBounded
    \/ Reload

SpecNames == Init /\ [][NextNames]_vars

\* the message of the k-th error of a run
ErrorMessage(k) == <<"render", k>>

\* the number of the error that comes after the ones logged
NextSerial ==
    IF Logs(localStorage) = <<>> THEN 1
    ELSE Logs(localStorage)[Len(Logs(localStorage))].message[2] + 1

\* A run of handled errors, long enough to fill the log, with localStorage refusing access
\* now and then
NextLog ==
    \/ \E k \in 1..MaxErrors : k = NextSerial /\ reportError(ErrorMessage(k), "UIManager")
    \/ \E b \in BOOLEAN : SetAvailable(b)

SpecLog == Init /\ [][NextLog]_vars

\* Field updates under names of every kind
NextIdentity ==
    \/ addGroup(Group9A, Array(<<AnaLopez, JuanPerez>>))
    \/ createSession(Group9A, ExampleDate, "08:00")
    \/ \E a \in IdentityInputs : updateSessionField(a[1], a[2]) /\ LogBounded
    \/ autoSaveTick
    \/ clearCurrentSession

SpecIdentity == Init /\ [][NextIdentity]_vars

\* the stored sessions of a group in which a student appears
StoredSessionsOf(g, n) ==
    {k \in DOMAIN localStorage :
        /\ IsSessionKey(k)
        /\ JSON_parse(localStorage[k]).grupo = g
        /\ n \in DOMAIN JSON_parse(localStorage[k]).students}

\* C1: whenever the statistics have just been read, each student's totalSesiones is the
\* number of distinct stored session keys (group, date) in which the student appears,
\* however many times those sessions were saved.
C1_CountsDistinctSessions ==
    last.op = "getAllStatistics" =>
        \A g \in DOMAIN view : \A n \in DOMAIN view[g].students :
            view[g].students[n].totalSesiones = Cardinality(StoredSessionsOf(g, n))

C4_Scenario ==
    /\ data = NoData
    /\ \A k \in DOMAIN localStorage : ~IsSessionKey(k)
    /\ groups = (Group9A :> <<AnaLopez, JuanPerez>>)
    /\ currentSession # Null
    /\ currentSession.grupo = Group9A
    /\ currentSession.fecha = ExampleDate
    /\ currentSession.startTime = "08:00"
    /\ DOMAIN currentStudents = {AnaLopez, JuanPerez}
    /\ currentStudents[AnaLopez].estado = "ausente"
    /\ currentStudents[JuanPerez].estado = "presente"

C4_ExampleScenario ==
    [][(C4_Scenario /\ UIManager_saveSession(EmptyDom) /\ last'.ret) =>
         LET stats == getAllStatistics(data')
         IN  /\ Group9A \in DOMAIN stats
             /\ stats[Group9A].summary.totalAusentes = 1
             /\ stats[Group9A].students[AnaLopez].ausente = 1
             /\ stats[Group9A].summary.totalSesiones = 1]_vars

\* C5: in every statistics read, the average attendance of a group is
\* totalPresent / (studentCount * max totalSesiones) * 100, and it is 0, with no division
\* by zero, when the group has no students or no counted session or no statistics at all.
C5_AverageAttendance ==
    \A g \in DOMAIN view :
        LET students == view[g].students
            studentCount == Cardinality(DOMAIN students)
            maxSessions == Max({students[n].totalSesiones : n \in DOMAIN students})
            totalPresent == SumFun([n \in DOMAIN students |-> students[n].presente])
            average == view[g].summary.promedioAsistencia
        IN  /\ average.den # 0
            /\ IF studentCount = 0 \/ maxSessions = 0
               THEN average.num = 0
               ELSE average.num * (studentCount * maxSessions) = totalPresent * 100 * average.den

\* a read that shows a group without students next to a group whose average is
\* strictly between 0 and 100
C5_Witness ==
    /\ \E g \in DOMAIN view : DOMAIN view[g].students = {}
    /\ \E g \in DOMAIN view :
          /\ view[g].summary.promedioAsistencia.num > 0
          /\ view[g].summary.promedioAsistencia.num < 100 * view[g].summary.promedioAsistencia.den


\* the part of a session that a round trip is to preserve
SavedFields(session) ==
    [f \in NarrativeFields \cup {"activityTime", "evaluation", "students"} |-> session[f]]

\* C3: when createSession(g, f, t) has succeeded and has been followed immediately by a
\* successful save, loadSession(g, f) succeeds and leaves a current session whose narrative
\* fields, activityTime, evaluation ratings and student records are those that were saved.
C3_RoundTrip ==
    [][\A g \in {Group9A, Padded9A} :
         (/\ last.op = "UIManager.saveSession"
          /\ last.ret
          /\ last.created = <<[grupo |-> g, fecha |-> ExampleDate]>>
          /\ loadSession(g, ExampleDate))
         => /\ last'.ret
            /\ SavedFields(currentSession') = SavedFields(currentSession)
            /\ currentStudents' = currentSession.students]_vars


\* the value persisted under 'groups', if any
PersistedGroups(ls) == IF GroupsKey \in DOMAIN ls THEN <<ls[GroupsKey]>> ELSE <<>>

\* C6: importing a roster in which group 9A has one invalid student name among valid ones
\* leaves a registry that contains 9A with exactly its valid names, in input order, and
\* reports an error that identifies the invalid entry.
C6_KeepsValidNames ==
    [][importGroups(OneInvalidName) =>
         /\ Group9A \in DOMAIN groups'
         /\ groups'[Group9A] = <<AnaLopez, JuanPerez>>
         /\ \E i \in 1..Len(last'.errors) :
               last'.errors[i].group = Group9A /\ last'.errors[i].student = 2]_vars

\* C7: whenever importGroups returns false because the imported structure did not validate,
\* the in-memory group map and the persisted 'groups' value are what they were before.
C7_RejectedImportChangesNothing ==
    [][\A d \in ImportInputs :
         (importGroups(d) /\ ~validateImportedGroups(d).valid)
         => /\ last'.ret = FALSE
            /\ groups' = groups
            /\ PersistedGroups(localStorage') = PersistedGroups(localStorage)]_vars

\* a rejected import on a registry that holds and persists a group
C7_Witness ==
    /\ last.op = "importGroups"
    /\ ~last.ret
    /\ last.errors # <<>>
    /\ Group9A \in DOMAIN groups
    /\ PersistedGroups(localStorage) # <<>>

\* C8: when the imported structure validates and the store rejects the write of the new
\* groups (size cap reached, or storage unavailable), importGroups returns false and the
\* in-memory registry is the one from before the import.
C8_FailedPersistRestores ==
    [][\A d \in ImportInputs :
         (/\ importGroups(d)
          /\ validateImportedGroups(d).valid
          /\ ~StorageService_set(localStorage, GroupsKey,
                                 validateImportedGroups(d).validGroups).ret)
         => /\ last'.ret = FALSE
            /\ groups' = groups]_vars


\* C9: the sum of key length and serialized value length over the keys of the application
\* never exceeds the cap, and a write of the teacher name whose resulting total stays within
\* the cap succeeds.
C9_CapEnforced ==
    [][/\ getStorageSize(localStorage') <= MAX_STORAGE_SIZE
       /\ \A name \in {ShortName, BigName, FullName} :
             (/\ saveTeacherName(name)
              /\ isAvailable
              /\ getStorageSize(Put(localStorage, TeacherKey, StringText(name)))
                    <= MAX_STORAGE_SIZE)
             => last'.ret]_vars

\* the keys and values a backup lists
BackupKeys(entries) == {entries[i][1] : i \in 1..Len(entries)}

\* C10: after restoreFromBackup(b) has returned true, the store holds no key that b.data
\* lacks and holds under every key of b.data the value of b.data; when b is a backup of the
\* store as it was, the store is unchanged.
C10_RestoreReplaysBackup ==
    [][(last'.op = "restoreFromBackup" /\ last'.ret)
       => LET entries == last'.backup.data
          IN  /\ DOMAIN localStorage' \subseteq BackupKeys(entries)
              /\ \A i \in 1..Len(entries) :
                    /\ entries[i][1] \in DOMAIN localStorage'
                    /\ JSON_parse(localStorage'[entries[i][1]]) = entries[i][2]
              /\ entries \in Backups(localStorage) => localStorage' = localStorage]_vars


\* the session that saveSession is about to write
SessionToWrite == [currentSession EXCEPT !.students = currentStudents, !.lastSaved = now]

\* C11: saveSession returns false when no session is open or when the store rejects the
\* write, and after a save that returned false the current session (lastSaved, student
\* records and every other field) and the dirty flag are what they were before the call.
C11_FailedSaveChangesNothing ==
    [][syncLessonFields(EmptyDom) =>
         LET fails ==
                \/ currentSession = Null
                \/ ~StorageService_set(localStorage,
                                       SessionKey(currentSession.grupo, currentSession.fecha),
                                       SessionToWrite).ret
         IN  /\ fails => ~last'.ret
             /\ ~last'.ret => (currentSession' = currentSession /\ isDirty' = isDirty)]_vars


\* C12: a createSession rejected for its group, date or start time, and a loadSession
\* rejected because nothing is stored under the key or because the stored session does not
\* validate, return false and leave the current session, the current student records, the
\* dirty flag and the autosave timer as they were.
C12_RejectionChangesNothing ==
    [][/\ \A a \in SessionInputs :
             (/\ createSession(a[1], a[2], a[3])
              /\ ~(validateGroup(a[1]).valid /\ validateDate(a[2]).valid
                    /\ validateTime(a[3]).valid))
             => ~last'.ret
       /\ \A g \in LoadInputs :
             (/\ loadSession(g, ExampleDate)
              /\ \/ SessionKey(g, ExampleDate) \notin DOMAIN localStorage
                 \/ ~validateSessionData(JSON_parse(localStorage[SessionKey(g, ExampleDate)])))
             => ~last'.ret
       /\ (/\ \/ \E a \in SessionInputs : createSession(a[1], a[2], a[3])
              \/ \E g \in LoadInputs : loadSession(g, ExampleDate)
           /\ ~last'.ret)
          => UNCHANGED <<currentSession, currentStudents, isDirty, autoSaveInterval,
                         liveTimers>>]_vars

\* a stored session that does not validate has been refused while a session with unsaved
\* changes was open
C12_Witness ==
    /\ last.op = "loadSession"
    /\ ~last.ret
    /\ SessionKey(Group8B, ExampleDate) \in DOMAIN localStorage
    /\ currentSession # Null
    /\ isDirty
    /\ autoSaveInterval


\* the options of each rating, as the defaults of createSession place them
RatingOptions(f) ==
    IF f \in {"activityAccessibility", "classMaterials", "physicalSpace"}
    THEN AGREEMENT ELSE QUALITY

\* C13: updateSessionField on evaluation.X accepts a value exactly when it is one of the
\* options of X, a rejected value leaves the session and the dirty flag unchanged, and at
\* all times each of the five ratings and activityTime of the current session is one of its
\* enumerated values.
C13_EvaluationEnumerated ==
    [][/\ \A a \in FieldInputs :
             (/\ currentSession # Null
              /\ a[1][1] = "evaluation"
              /\ a[1][2] \in DOMAIN currentSession.evaluation
              /\ updateSessionField(a[1], a[2]))
             => IF IsString(a[2]) /\ Concat(a[2]) \in RatingOptions(a[1][2])
                THEN last'.ret
                ELSE ~last'.ret /\ currentSession' = currentSession /\ isDirty' = isDirty
       /\ currentSession' # Null =>
             /\ \A f \in DOMAIN currentSession'.evaluation :
                   currentSession'.evaluation[f] \in RatingOptions(f)
             /\ currentSession'.activityTime \in TIME]_vars


\* the number of stored sessions of a group in which a student has an attendance state
StoredWithState(g, n, e) ==
    Cardinality({k \in StoredSessionsOf(g, n) :
                    JSON_parse(localStorage[k]).students[n].estado = e})

\* C14: when deleteSession has just removed a stored session, the read of the statistics
\* that follows gives the students of that group the counters derived from the sessions
\* that remain stored.
C14_DeletedSessionNotCounted ==
    [][(last.op = "deleteSession" /\ last.removed /\ showStatistics) =>
         \A g \in (DOMAIN view') \cap {last.grupo} : \A n \in DOMAIN view'[g].students :
             /\ view'[g].students[n].totalSesiones = Cardinality(StoredSessionsOf(g, n))
             /\ \A e \in STUDENT_STATES :
                    view'[g].students[n][e] = StoredWithState(g, n, e)]_vars


\* the names of the students of a stored session
StoredNames(ls, k) == DOMAIN JSON_parse(ls[k]).students

\* an edit of the roster
RosterEdit ==
    \/ \E r \in RosterInputs : addGroup(Group9A, Array(r))
    \/ removeGroup(Group9A)
    \/ importGroups(ValidImport)

\* C15: an edit of the roster (addGroup, removeGroup, importGroups) leaves every stored
\* session stored with the set of student names it had.
C15_StoredStudentSetFixed ==
    [][RosterEdit =>
         \A k \in DOMAIN localStorage :
             IsSessionKey(k) =>
                 /\ k \in DOMAIN localStorage'
                 /\ StoredNames(localStorage', k) = StoredNames(localStorage, k)]_vars

\* a roster edit has succeeded and a stored session of 9A names a student who is no longer
\* in the roster of 9A
C15_Witness ==
    /\ last.op \in {"addGroup", "removeGroup", "importGroups"}
    /\ last.ret
    /\ \E k \in DOMAIN localStorage :
          /\ IsSessionKey(k)
          /\ k[2] = Group9A
          /\ \E n \in StoredNames(localStorage, k) :
                \A i \in 1..Len(getStudentsInGroup(Group9A)) :
                    getStudentsInGroup(Group9A)[i] # n


\* the state and the flags of a student record
StateAndFlags(r) == [f \in {"estado"} \cup FlagFields |-> r[f]]

\* C16: createSession for a group and date under which a session with a lastSaved is
\* stored leaves a current session whose narrative fields, activityTime and evaluation are
\* the stored ones and in which every stored student has the stored state and flags, in
\* the session and in the student manager, and the session is not dirty.
C16_ReopenKeepsSavedFields ==
    [][(/\ createSession(Group9A, ExampleDate, "08:00")
        /\ SessionKey(Group9A, ExampleDate) \in DOMAIN localStorage
        /\ JSON_parse(localStorage[SessionKey(Group9A, ExampleDate)]).lastSaved # 0)
       => LET persisted == JSON_parse(localStorage[SessionKey(Group9A, ExampleDate)])
          IN  /\ last'.ret
              /\ \A f \in NarrativeFields \cup {"activityTime", "evaluation"} :
                    currentSession'[f] = persisted[f]
              /\ \A n \in DOMAIN persisted.students :
                    /\ n \in DOMAIN currentSession'.students
                    /\ n \in DOMAIN currentStudents'
                    /\ StateAndFlags(currentSession'.students[n])
                          = StateAndFlags(persisted.students[n])
                    /\ StateAndFlags(currentStudents'[n])
                          = StateAndFlags(persisted.students[n])
              /\ ~isDirty']_vars

\* a session saved with a typed lesson content, a changed rating, an absence and a flag
\* has been opened again by createSession
C16_Witness ==
    /\ last.op = "createSession"
    /\ last.ret
    /\ currentSession.lastSaved # 0
    /\ currentSession.lessonContent # <<>>
    /\ currentSession.evaluation.studentAttitude = "Regular"
    /\ AnaLopez \in DOMAIN currentStudents
    /\ currentStudents[AnaLopez].estado = "ausente"
    /\ currentStudents[AnaLopez].bano
    /\ ~isDirty

\* the names in the roster of a group
RosterNames(g) == {getStudentsInGroup(g)[i] : i \in 1..Len(getStudentsInGroup(g))}

\* C17: createSession for a group and date under which a session is stored leaves a
\* current session whose students are those of the current roster of the group: a student
\* added to the roster since the save is in the session and one removed from it is not.
C17_NewestRosterWins ==
    [][(/\ createSession(Group9A, ExampleDate, "08:00")
        /\ SessionKey(Group9A, ExampleDate) \in DOMAIN localStorage)
       => /\ DOMAIN currentSession'.students = RosterNames(Group9A)
          /\ DOMAIN currentStudents' = RosterNames(Group9A)]_vars


\* the number of students of the student manager whose state is e
CountWithState(e) == Cardinality({n \in DOMAIN currentStudents : currentStudents[n].estado = e})

\* C18: whenever getCurrentAttendanceStats has just been read with a session open,
\* presente + ausente + tarde = total = the number of students of the session, and each
\* count is the number of students whose state, as last set, is that value.
C18_TallyOfCurrentStates ==
    (last.op = "getCurrentAttendanceStats" /\ currentSession # Null) =>
        /\ last.stats.presente + last.stats.ausente + last.stats.tarde = last.stats.total
        /\ last.stats.total = Cardinality(DOMAIN currentStudents)
        /\ \A e \in STUDENT_STATES : last.stats[e] = CountWithState(e)

\* C19: whenever getStudentsWithIncidents has just been read, it has returned exactly the
\* students whose state, as last set, is not present, or who have a flag among bano,
\* enfermeria and otro set, or who have a comment; and none when no session is open.
C19_IncidentsOfCurrentStates ==
    last.op = "getStudentsWithIncidents" =>
        IF currentSession = Null THEN DOMAIN last.incidents = {}
        ELSE DOMAIN last.incidents =
                {n \in DOMAIN currentStudents : HasIncident(currentStudents[n])}


\* letters and digits
Alphanumeric == UpperCase \cup LowerCase \cup Digit \cup Accented

\* C20: a comment is accepted exactly when its text has between 3 and 500 characters and
\* contains at least one alphanumeric character: "ok" is refused, "Buen trabajo" is
\* accepted, and a text of more than 500 characters is refused.
C20_CommentAccepted ==
    [][\A c \in CommentInputs :
         (AnaLopez \in DOMAIN currentStudents /\ saveComment(AnaLopez, c))
         => (last'.ret <=> /\ Len(c) >= 3
                           /\ Len(c) <= MAX_COMMENT_LENGTH
                           /\ \E i \in 1..Len(c) : c[i] \in Alphanumeric)]_vars

\* C21: the session manager owns at most one live interval timer, and none after
\* clearCurrentSession or destroy; the autosave callback runs only off a live timer
C21_AtMostOneTimer ==
    /\ liveTimers \in {0, 1}
    /\ liveTimers = (IF autoSaveInterval THEN 1 ELSE 0)
    /\ last.op \in {"clearCurrentSession", "destroy"} => liveTimers = 0
    /\ last.op = "autoSave" => liveTimers = 1

\* startAutoSave was called on an open session, whose timer was already running
C21_Witness ==
    /\ last.op = "startAutoSave"
    /\ currentSession # Null
    /\ liveTimers = 1

\* C22: an autosave tick attempts the write exactly when the session is open and dirty.  A
\* tick on a clean session or without a session leaves the store, the session and the flag
\* as they were; a tick whose write the store accepts leaves the session of that moment
\* under its key and clears the flag; a tick whose write the store refuses leaves the key
\* as it was and reports the failure
C22_TickWritesIffDirty ==
    [][autoSaveTick =>
         IF isDirty /\ currentSession # Null
         THEN LET sessionKey == SessionKey(currentSession.grupo, currentSession.fecha)
              IN  IF StorageService_set(localStorage, sessionKey, SessionToWrite).ret
                  THEN /\ sessionKey \in DOMAIN localStorage'
                       /\ JSON_parse(localStorage'[sessionKey]) = SessionToWrite
                       /\ currentSession' = SessionToWrite
                       /\ ~isDirty'
                       /\ last'.ret
                  ELSE /\ ~last'.ret
                       /\ isDirty'
                       /\ (sessionKey \in DOMAIN localStorage') = (sessionKey \in DOMAIN localStorage)
                       /\ sessionKey \in DOMAIN localStorage
                            => localStorage'[sessionKey] = localStorage[sessionKey]
         ELSE UNCHANGED <<localStorage, currentSession, isDirty>>]_vars

\* a tick has just written an edited session
C22_Witness ==
    /\ last.op = "autoSave"
    /\ last.ret
    /\ ~isDirty
    /\ currentSession # Null
    /\ AnaLopez \in DOMAIN currentSession.students
    /\ currentSession.students[AnaLopez].estado = "ausente"
    /\ SessionKey(currentSession.grupo, currentSession.fecha) \in DOMAIN localStorage

\* the open session is clean and the store holds it, with the student records as they are
Persisted ==
    /\ currentSession # Null
    /\ ~isDirty
    /\ currentSession.students = currentStudents
    /\ SessionKey(currentSession.grupo, currentSession.fecha) \in DOMAIN localStorage
    /\ JSON_parse(localStorage[SessionKey(currentSession.grupo, currentSession.fecha)])
         = currentSession

\* an accepted edit of the open session has just been made
Edited ==
    /\ currentSession # Null
    /\ last.op \in {"updateStudentState", "updateSessionField"}
    /\ last.ret

\* C23: with the timer's callback firing fairly and a store that accepts writes, an
\* accepted edit of the open session (a field update or a student state change) leads to a
\* state where the flag is clear and the store holds the session with every edit made so
\* far, unless the session is closed first
C23_EditEventuallyPersisted == Edited ~> (Persisted \/ currentSession = Null)

\* an edit made after a tick has been written by a later tick
C23_Witness ==
    /\ Persisted
    /\ last.op = "autoSave"
    /\ AnaLopez \in DOMAIN currentSession.students
    /\ currentSession.students[AnaLopez].estado = "tarde"
    /\ currentSession.evaluation.studentAttitude = Concat(Regular)
    /\ \E g \in DOMAIN data : \E n \in DOMAIN data[g] : data[g][n].totalSesiones = 2

\* the counters of one student add up
CountersAddUp(c) ==
    /\ c.presente + c.ausente + c.tarde = c.totalSesiones
    /\ c.bano <= c.totalSesiones
    /\ c.enfermeria <= c.totalSesiones
    /\ c.otro <= c.totalSesiones

\* C24: for every student of the statistics, in memory and in the store, presente +
\* ausente + tarde = totalSesiones and each of bano, enfermeria and otro is at most
\* totalSesiones
C24_OneCounterPerSession ==
    /\ \A g \in DOMAIN data : \A n \in DOMAIN data[g] : CountersAddUp(data[g][n])
    /\ StatisticsKey \in DOMAIN localStorage =>
          LET stored == JSON_parse(localStorage[StatisticsKey])
          IN  \A g \in DOMAIN stored : \A n \in DOMAIN stored[g] : CountersAddUp(stored[g][n])

\* a student counted in two sessions, once late, and one counted with a visit to the bathroom
C24_Witness ==
    \E g \in DOMAIN data : \E n, m \in DOMAIN data[g] :
        /\ data[g][n].totalSesiones = 2
        /\ data[g][n].tarde = 1
        /\ data[g][m].bano >= 1

\* /^[0-9]+[A-Z]$/ on a group name of the registry
MatchesGroupPattern(g) ==
    /\ Len(g) >= 2
    /\ \A i \in 1..(Len(g) - 1) : g[i] \in Digit
    /\ g[Len(g)] \in UpperCase

\* the groups of the registry have well-formed names and non-empty lists
GroupsNamedAndFilled ==
    \A g \in DOMAIN groups : MatchesGroupPattern(g) /\ Len(groups[g]) > 0

\* C25: every group name of the registry matches ^[0-9]+[A-Z]$, every group has a non-empty
\* student list, and the names within a group are pairwise distinct
C25_RosterWellFormed ==
    /\ GroupsNamedAndFilled
    /\ \A g \in DOMAIN groups :
          \A i, j \in 1..Len(groups[g]) : i # j => groups[g][i] # groups[g][j]

\* the last n entries of a log
KeepLast(L, n) == IF Len(L) > n THEN SubSeq(L, Len(L) - n + 1, Len(L)) ELSE L

\* C26: the persisted error log holds at most 100 entries; an error handled while
\* localStorage gives access is put at its end, and the entries kept are the most recent
\* ones in the order they were logged, the oldest being the ones dropped
C26_LogIsCappedRing ==
    [][LET L == Logs(localStorage)
           L2 == Logs(localStorage')
       IN  /\ Len(L2) <= maxLogs
           /\ L2 # L => Len(L2) >= 1 /\ L2 = KeepLast(Append(L, L2[Len(L2)]), maxLogs)
           /\ \A k \in 1..MaxErrors :
                 (k = NextSerial /\ available /\ reportError(ErrorMessage(k), "UIManager"))
                 => L2[Len(L2)].message = ErrorMessage(k)]_vars

\* the log is full and its two oldest entries have been dropped
C26_Witness ==
    /\ Len(Logs(localStorage)) = maxLogs
    /\ Logs(localStorage)[1].message = ErrorMessage(3)
    /\ Logs(localStorage)[maxLogs].message = ErrorMessage(maxLogs + 2)

\* the field names updateSessionField is meant to take
Recognized(field) ==
    \/ Len(field) = 1 /\ field[1] \in NarrativeFields \cup {"activityTime"}
    \/ /\ Len(field) = 2
       /\ field[1] = "evaluation"
       /\ currentSession # Null
       /\ field[2] \in DOMAIN currentSession.evaluation

\* C27: a call of updateSessionField whose field name is not a narrative field, activityTime
\* or an existing evaluation.X returns false and leaves the session unchanged, and no call
\* changes grupo, fecha, id, students, createdAt or lastSaved of the current session
C27_IdentityNotUpdatable ==
    [][\A a \in IdentityInputs :
         (currentSession # Null /\ updateSessionField(a[1], a[2]))
         => /\ ~Recognized(a[1]) => ~last'.ret /\ currentSession' = currentSession
            /\ \A f \in {"grupo", "fecha", "id", "students", "createdAt", "lastSaved"} :
                  currentSession'[f] = currentSession[f]]_vars

\* C28: whenever a session is open, the dirty flag is clear and lastSaved is set, the value
\* stored under the session's key is the in-memory session: the same lastSaved, narrative
\* fields, evaluation and student records
C28_CleanImpliesPersisted ==
    (currentSession # Null /\ ~isDirty /\ currentSession.lastSaved # 0)
    => LET sessionKey == SessionKey(currentSession.grupo, currentSession.fecha)
       IN  /\ sessionKey \in DOMAIN localStorage
           /\ LET stored == JSON_parse(localStorage[sessionKey])
              IN  /\ stored.lastSaved = currentSession.lastSaved
                  /\ \A f \in NarrativeFields : stored[f] = currentSession[f]
                  /\ stored.evaluation = currentSession.evaluation
                  /\ stored.students = currentSession.students

\* C29: once deleteSession has removed a stored session, an autosave tick does not put its
\* key back, even if the deleted session is the open one and is dirty (stated for the tick
\* that comes right after the deletion)
C29_DeletedStaysDeleted ==
    [][(/\ last.op = "deleteSession"
        /\ last.removed
        /\ autoSaveTick)
       => SessionKey(last.grupo, ExampleDate) \notin DOMAIN localStorage']_vars

\* the roster stored under 'groups'; no stored value is the empty roster
StoredGroups(ls) == IF GroupsKey \in DOMAIN ls THEN JSON_parse(ls[GroupsKey]) ELSE NoGroups

\* C30: after every addGroup, removeGroup or importGroups call the in-memory group map is
\* the value stored under 'groups'; a call that returns false leaves the in-memory map as
\* it was, and a call that returns true has written the new map to the store
C30_RosterMatchesStore ==
    [][(\/ addGroup(Group9A, Array(<<AnaLopez, JuanPerez>>))
        \/ \E g \in {Group9A, Group8B} : removeGroup(g)
        \/ \E d \in ImportInputs : importGroups(d))
       => /\ groups' = StoredGroups(localStorage')
          /\ ~last'.ret => groups' = groups
          /\ last'.ret => GroupsKey \in DOMAIN localStorage']_vars

====
